---- MODULE Spec2Model ----
(***************************************************************************)
(* A model of the Caml language pipeline (ayaan-rulhania/caml-lang):       *)
(* the tree-walking evaluator of caml/caml-code/interpreter.py, run one    *)
(* visit at a time over an explicit stack of the Python frames that are    *)
(* executing a statement list.                                             *)
(*                                                                         *)
(* Python values are tagged records of one shape.  Numbers are exact       *)
(* rationals n/d (an int has d = 1); a str carries s; a list or dict value *)
(* is a reference n into the heap of mutable objects, so that aliasing of  *)
(* one list object under several names is kept.                            *)
(***************************************************************************)
EXTENDS Integers, Sequences, FiniteSets, TLC

\* ---------------------------------------------------------------- bounds
MaxTop == 4      \* top-level statements of a program
MaxDepth == 3    \* nested user-function calls before Python's RecursionError
MaxOut == 4      \* console lines written by a run
MaxHeap == 4     \* list and dict objects allocated by a run
MaxItems == 8    \* elements of a list

\* ---------------------------------------------------------------- values
Null == [t |-> "null", n |-> 0, d |-> 1, s |-> ""]
IntV(i) == [t |-> "int", n |-> i, d |-> 1, s |-> ""]
FltV(a, b) == [t |-> "float", n |-> a, d |-> b, s |-> ""]
StrV(x) == [t |-> "str", n |-> 0, d |-> 1, s |-> x]
ListRef(id) == [t |-> "list", n |-> id, d |-> 1, s |-> ""]
DictRef(id) == [t |-> "dict", n |-> id, d |-> 1, s |-> ""]

\* The key None of a Python dict, and a name field that is None.
NoName == "<None>"

EmptyMap == [x \in {} |-> Null]

\* d[k] = v on a Python dict
Put(f, k, v) == [x \in (DOMAIN f) \cup {k} |-> IF x = k THEN v ELSE f[x]]

\* del d[k]
Del(f, k) == [x \in (DOMAIN f) \ {k} |-> f[x]]

\* {**a, **b}
Merge(a, b) == [x \in (DOMAIN a) \cup (DOMAIN b) |-> IF x \in DOMAIN b THEN b[x] ELSE a[x]]

Abs(i) == IF i < 0 THEN -i ELSE i

RECURSIVE Gcd(_, _)
Gcd(a, b) == IF b = 0 THEN Abs(a) ELSE Gcd(b, a % b)

\* the number a/b (b # 0) in lowest terms, as an int when asInt
Num(a, b, asInt) ==
    LET g == Gcd(Abs(a), Abs(b))
        sg == IF b < 0 THEN -1 ELSE 1
    IN IF asInt THEN IntV(a) ELSE FltV((sg * a) \div g, (sg * b) \div g)

\* isinstance(v, (int, float)); bool is a subclass of int
IsNum(v) == v.t \in {"int", "float", "bool"}

BothInt(a, b) == a.t # "float" /\ b.t # "float"

PyAdd(a, b) == Num(a.n * b.d + b.n * a.d, a.d * b.d, BothInt(a, b))
PySub(a, b) == Num(a.n * b.d - b.n * a.d, a.d * b.d, BothInt(a, b))
PyMul(a, b) == Num(a.n * b.n, a.d * b.d, BothInt(a, b))
\* a / b is true division: the result is a float also for two ints
PyDiv(a, b) == Num(a.n * b.d, a.d * b.n, FALSE)

RECURSIVE IntPow(_, _)
IntPow(b, e) == IF e = 0 THEN 1 ELSE b * IntPow(b, e - 1)

\* a ** b for an integral exponent b (b.d = 1); a negative exponent gives a float
PyPow(a, b) ==
    IF b.n >= 0
    THEN Num(IntPow(a.n, b.n), IntPow(a.d, b.n), BothInt(a, b))
    ELSE Num(IntPow(a.d, -b.n), IntPow(a.n, -b.n), FALSE)

\* ---------------------------------------------------------------- AST nodes
\* One record shape for every node class of nodes.py; a field a class lacks
\* keeps its default.  value holds node.value / condition / times / target,
\* name2 the second name (ForEach iterable, abbreviation's new name), params
\* the declared argument names or the dict keys, args the call arguments,
\* list elements or dict values.  call marks a DisplayNode whose value is a
\* FunctionCallNode (name, args).
N0 == [kind |-> "None", name |-> NoName, name2 |-> NoName, value |-> Null,
       args |-> <<>>, params |-> <<>>, body |-> <<>>, bold |-> FALSE, call |-> FALSE]

DisplayNode(v) == [N0 EXCEPT !.kind = "DisplayNode", !.value = v]
DisplayCallNode(f, a) == [N0 EXCEPT !.kind = "DisplayNode", !.call = TRUE, !.name = f, !.args = a]
AssignNode(x, v) == [N0 EXCEPT !.kind = "AssignNode", !.name = x, !.value = v]
SetNode(x, v) == [N0 EXCEPT !.kind = "SetNode", !.name = x, !.value = v]
ChangeNode(x, v) == [N0 EXCEPT !.kind = "ChangeNode", !.name = x, !.value = v]
IncreaseNode(x, v) == [N0 EXCEPT !.kind = "IncreaseNode", !.name = x, !.value = v]
DecreaseNode(x, v) == [N0 EXCEPT !.kind = "DecreaseNode", !.name = x, !.value = v]
MultiplyNode(x, v) == [N0 EXCEPT !.kind = "MultiplyNode", !.name = x, !.value = v]
DivideNode(x, v) == [N0 EXCEPT !.kind = "DivideNode", !.name = x, !.value = v]
ExponentiateNode(x, v) == [N0 EXCEPT !.kind = "ExponentiateNode", !.name = x, !.value = v]
BlockVarNode(x) == [N0 EXCEPT !.kind = "BlockVarNode", !.name = x]
FunctionDefNode(f, p, b) == [N0 EXCEPT !.kind = "FunctionDefNode", !.name = f, !.params = p, !.body = b]
FunctionCallNode(f, a) == [N0 EXCEPT !.kind = "FunctionCallNode", !.name = f, !.args = a]
FunctionAbbrevNode(o, nw) == [N0 EXCEPT !.kind = "FunctionAbbrevNode", !.name = o, !.name2 = nw]
IfNode(c, b) == [N0 EXCEPT !.kind = "IfNode", !.value = c, !.body = b]
OrIfNode(c, b) == [N0 EXCEPT !.kind = "OrIfNode", !.value = c, !.body = b]
OtherwiseNode(b) == [N0 EXCEPT !.kind = "OtherwiseNode", !.body = b]
RepeatNode(c, b) == [N0 EXCEPT !.kind = "RepeatNode", !.value = c, !.body = b]
DoUntilNode(c, b) == [N0 EXCEPT !.kind = "DoUntilNode", !.value = c, !.body = b]
ForEachNode(x, it, b) == [N0 EXCEPT !.kind = "ForEachNode", !.name = x, !.name2 = it, !.body = b]
ListNode(x, e) == [N0 EXCEPT !.kind = "ListNode", !.name = x, !.args = e]
ListAddNode(x, v) == [N0 EXCEPT !.kind = "ListAddNode", !.name = x, !.value = v]
DictionaryNode(x, ks, vs) == [N0 EXCEPT !.kind = "DictionaryNode", !.name = x, !.params = ks, !.args = vs]

\* ---------------------------------------------------------------- lexer
\* Python str operations on TLA+ strings.  Indices are 1-based here.
Ch(s, i) == SubSeq(s, i, i)
From(s, i) == SubSeq(s, i, Len(s))

NL == "\n"
CR == "\r"
Quote == "\""
Backslash == "\\"
\* str.isspace, over the characters a source holds
Space == {" ", "\t", NL, CR}
Digits == {"0", "1", "2", "3", "4", "5", "6", "7", "8", "9"}
Letters == {"a", "b", "c", "d", "e", "f", "g", "h", "i", "j", "k", "l", "m",
            "n", "o", "p", "q", "r", "s", "t", "u", "v", "w", "x", "y", "z"}
UpperToLower ==
    "A" :> "a" @@ "B" :> "b" @@ "C" :> "c" @@ "D" :> "d" @@ "E" :> "e" @@ "F" :> "f" @@
    "G" :> "g" @@ "H" :> "h" @@ "I" :> "i" @@ "J" :> "j" @@ "K" :> "k" @@ "L" :> "l" @@
    "M" :> "m" @@ "N" :> "n" @@ "O" :> "o" @@ "P" :> "p" @@ "Q" :> "q" @@ "R" :> "r" @@
    "S" :> "s" @@ "T" :> "t" @@ "U" :> "u" @@ "V" :> "v" @@ "W" :> "w" @@ "X" :> "x" @@
    "Y" :> "y" @@ "Z" :> "z"

Least(S) == CHOOSE x \in S : \A y \in S : x <= y
Greatest(S) == CHOOSE x \in S : \A y \in S : x >= y

\* str.lower, by halves
RECURSIVE Lower(_)
Lower(s) ==
    IF s = "" THEN ""
    ELSE IF Len(s) = 1 THEN (IF s \in DOMAIN UpperToLower THEN UpperToLower[s] ELSE s)
    ELSE Lower(SubSeq(s, 1, Len(s) \div 2)) \o Lower(From(s, (Len(s) \div 2) + 1))

\* the first index >= i of s whose character is not in set, Len(s) + 1 if
\* none (i itself when i > Len(s))
SkipIn(s, i, set) ==
    LET S == {j \in i..Len(s) : Ch(s, j) \notin set}
    IN IF S = {} THEN (IF i > Len(s) THEN i ELSE Len(s) + 1) ELSE Least(S)

\* the first index >= i of s whose character is in set, Len(s) + 1 if none
\* (i itself when i > Len(s))
SkipTo(s, i, set) ==
    LET S == {j \in i..Len(s) : Ch(s, j) \in set}
    IN IF S = {} THEN (IF i > Len(s) THEN i ELSE Len(s) + 1) ELSE Least(S)

\* the last index <= j of s whose character is not in set, 0 if none
BackIn(s, j, set) ==
    LET S == {k \in 1..j : Ch(s, k) \notin set}
    IN IF S = {} THEN 0 ELSE Greatest(S)

\* s.strip(chars)
StripSet(s, set) == SubSeq(s, SkipIn(s, 1, set), BackIn(s, Len(s), set))
\* s.strip()
Strip(s) == StripSet(s, Space)

\* s.split(sep) for a one-character sep
RECURSIVE SplitOn(_, _)
SplitOn(s, sep) ==
    LET e == SkipTo(s, 1, {sep})
    IN IF e > Len(s) THEN <<s>> ELSE <<SubSeq(s, 1, e - 1)>> \o SplitOn(From(s, e + 1), sep)

\* s.split(): the runs of non-whitespace
RECURSIVE Split(_)
Split(s) ==
    LET b == SkipIn(s, 1, Space)
        e == SkipTo(s, b, Space)
    IN IF b > Len(s) THEN <<>> ELSE <<SubSeq(s, b, e - 1)>> \o Split(From(s, e))

\* sep.join(parts[:n])
RECURSIVE Join(_, _, _)
Join(parts, n, sep) ==
    IF n = 0 THEN ""
    ELSE IF n = 1 THEN parts[1]
    ELSE Join(parts, n - 1, sep) \o sep \o parts[n]

\* the first index >= i at which sub occurs in s, 0 if it does not
FindFrom(s, i, sub) ==
    LET S == {j \in i..(Len(s) - Len(sub) + 1) : SubSeq(s, j, j + Len(sub) - 1) = sub}
    IN IF S = {} THEN 0 ELSE Least(S)

\* s.replace(old, new)
RECURSIVE Replace(_, _, _)
Replace(s, old, new) ==
    LET k == FindFrom(s, 1, old)
    IN IF k = 0 THEN s
       ELSE SubSeq(s, 1, k - 1) \o new \o Replace(From(s, k + Len(old)), old, new)

\* s.find(c) as a 1-based index, 0 when c is not in s
Find(s, c) == LET e == SkipTo(s, 1, {c}) IN IF e > Len(s) THEN 0 ELSE e

DigitVal == "0" :> 0 @@ "1" :> 1 @@ "2" :> 2 @@ "3" :> 3 @@ "4" :> 4 @@
            "5" :> 5 @@ "6" :> 6 @@ "7" :> 7 @@ "8" :> 8 @@ "9" :> 9

\* int(s) for a string of digits
RECURSIVE ParseInt(_)
ParseInt(s) ==
    IF s = "" THEN 0 ELSE 10 * ParseInt(SubSeq(s, 1, Len(s) - 1)) + DigitVal[Ch(s, Len(s))]

\* str(k) for k in 0..99
DigitStr == <<"0", "1", "2", "3", "4", "5", "6", "7", "8", "9">>
IntStr(k) == IF k < 10 THEN DigitStr[k + 1] ELSE DigitStr[(k \div 10) + 1] \o DigitStr[(k % 10) + 1]

\* Lexer.keywords (lexer.py 25-112)
keywords ==
    "display" :> "DISPLAY" @@ "interact" :> "INTERACT" @@ "plus bold" :> "PLUS_BOLD" @@
    "assign" :> "ASSIGN" @@ "set variable" :> "SET" @@ "set" :> "SET" @@
    "change" :> "CHANGE" @@ "increase" :> "INCREASE" @@ "decrease" :> "DECREASE" @@
    "multiply" :> "MULTIPLY" @@ "divide" :> "DIVIDE" @@ "exponentiate" :> "EXPONENTIATE" @@
    "block" :> "BLOCK" @@ "to" :> "TO" @@ "by" :> "BY" @@
    "define function" :> "DEFINE_FUNCTION" @@ "which takes" :> "WHICH_TAKES" @@
    "which does" :> "WHICH_DOES" @@ "call function" :> "CALL_FUNCTION" @@
    "call" :> "CALL_FUNCTION" @@ "abbreviate function" :> "ABBREV_FUNCTION" @@
    "abbreviate" :> "ABBREV_FUNCTION" @@
    "if" :> "IF" @@ "or if" :> "ORIF" @@ "otherwise" :> "OTHERWISE" @@
    "repeat this" :> "REPEAT" @@ "times" :> "TIMES" @@ "do this until" :> "DOUNTIL" @@
    "for each" :> "FOREACH" @@ "in" :> "IN" @@ "do" :> "DO" @@
    "square of" :> "SQUARE" @@ "squareroot of" :> "SQUAREROOT" @@ "gcd(" :> "GCD" @@
    "lcm(" :> "LCM" @@ "generate random int" :> "RANDOM_INT" @@
    "create list" :> "CREATE_LIST" @@ "containing contents" :> "CONTENTS" @@
    "add" :> "ADD" @@ "remove" :> "REMOVE" @@ "create dictionary" :> "CREATE_DICT" @@
    "containing" :> "CONTAINING" @@
    "create object" :> "CREATE_OBJECT" @@ "create window" :> "CREATE_WINDOW" @@
    "create a new button" :> "CREATE_BUTTON" @@ "create button" :> "CREATE_BUTTON" @@
    "window" :> "WINDOW" @@ "button" :> "BUTTON" @@ "delete" :> "DELETE" @@
    "add function" :> "ADD_FUNCTION" @@
    "create new file" :> "FILE_CREATE" @@ "delete file" :> "FILE_DELETE" @@
    "write" :> "FILE_WRITE" @@ "find" :> "FILE_FIND" @@ "replace" :> "FILE_REPLACE" @@
    "rename file" :> "FILE_RENAME" @@ "access file" :> "FILE_ACCESS" @@
    "at first line" :> "AT_FIRST" @@
    "get length of" :> "GET_LENGTH" @@ "get case of" :> "GET_CASE" @@
    "get data type of" :> "GET_TYPE" @@ "import" :> "IMPORT" @@
    "exports are" :> "EXPORTS" @@ "exports" :> "EXPORTS" @@
    "true" :> "BOOLEAN" @@ "false" :> "BOOLEAN" @@ "null" :> "NULL" @@
    "undefined" :> "NULL" @@
    "and" :> "AND" @@ "or" :> "OR" @@ "except" :> "EXCEPT" @@ "is equal to" :> "EQ" @@
    "is greater than" :> "GT" @@ "is less than" :> "LT" @@ "return" :> "RETURN"

\* Lexer.filler_words (lexer.py 115)
filler_words == {"the", "a", "an"}

CRLF == "\r\n"

\* The regular expression "(?:\\.|[^"\\])*" tried at an opening quote, j the
\* index after it: the index of the closing quote, 0 when it does not match
\* (lexer.py 124; `.` does not match a newline).
RECURSIVE StringClose(_, _)
StringClose(text, j) ==
    LET k == SkipTo(text, j, {Quote, Backslash})
    IN IF k > Len(text) THEN 0
       ELSE IF Ch(text, k) = Quote THEN k
       ELSE IF k + 1 <= Len(text) /\ Ch(text, k + 1) # NL THEN StringClose(text, k + 2)
       ELSE 0

\* string_pattern.sub(hide, text) from index i on (lexer.py 125-129)
RECURSIVE hide(_, _, _)
hide(text, i, strings) ==
    LET q == SkipTo(text, i, {Quote})
        close == StringClose(text, q + 1)
    IN IF q > Len(text) THEN [hidden |-> From(text, i), strings |-> strings]
       ELSE IF close > 0
       THEN LET r == hide(text, close + 1, Append(strings, SubSeq(text, q, close)))
            IN [hidden |-> SubSeq(text, i, q - 1) \o "__STR_" \o IntStr(Len(strings)) \o "__" \o r.hidden,
                strings |-> r.strings]
       ELSE LET r == hide(text, q + 1, strings)
            IN [hidden |-> SubSeq(text, i, q) \o r.hidden, strings |-> r.strings]

\* the loop over the hidden lines (lexer.py 134-148): block comments toggled
\* by a line starting with $$$, the rest of a line from its first $ dropped
RECURSIVE out_lines(_, _)
out_lines(lns, in_block) ==
    IF lns = <<>> THEN <<>>
    ELSE LET ln == Head(lns)
             s == Strip(ln)
             idx == Find(ln, "$")
         IN IF Len(s) >= 3 /\ SubSeq(s, 1, 3) = "$$$" THEN out_lines(Tail(lns), ~in_block)
            ELSE IF in_block THEN out_lines(Tail(lns), in_block)
            ELSE <<IF idx > 0 THEN SubSeq(ln, 1, idx - 1) ELSE ln>> \o out_lines(Tail(lns), in_block)

\* re.sub(r'__STR_(\d+)__', restore, text) (lexer.py 151-154); ok is false
\* when strings[idx] raises IndexError
RECURSIVE restore(_, _)
restore(text, strings) ==
    LET k == FindFrom(text, 1, "__STR_")
        e == SkipIn(text, k + 6, Digits)
        placeholder == e > k + 6 /\ e + 1 <= Len(text) /\ SubSeq(text, e, e + 1) = "__"
        idx == ParseInt(SubSeq(text, k + 6, e - 1))
    IN IF k = 0 THEN [text |-> text, ok |-> TRUE]
       ELSE IF placeholder
       THEN LET r == restore(From(text, e + 2), strings)
            IN IF idx >= Len(strings) THEN [text |-> "", ok |-> FALSE]
               ELSE [text |-> SubSeq(text, 1, k - 1) \o strings[idx + 1] \o r.text, ok |-> r.ok]
       ELSE LET r == restore(From(text, k + 1), strings)
            IN [text |-> SubSeq(text, 1, k) \o r.text, ok |-> r.ok]

\* Lexer._preprocess (lexer.py 119-157): the value of self.lines
preprocess(code) ==
    LET text == Replace(Replace(code, CRLF, NL), CR, NL)
        h == hide(text, 1, <<>>)
        out == out_lines(SplitOn(h.hidden, NL), FALSE)
        r == restore(Join(out, Len(out), NL), h.strings)
    IN [lines |-> SplitOn(r.text, NL), ok |-> r.ok]

\* Token (lexer.py 5)
Token(ty, v) == [type |-> ty, value |-> v]

Punct == {"(", ")", ",", ":", "+", "-", "*", "/", "^"}
\* the characters the word pattern [^\s,():+*/^]+ stops at (lexer.py 232)
WordStop == Space \cup {",", "(", ")", ":", "+", "*", "/", "^"}
\* cand.strip(' ,:()') (lexer.py 244)
PhraseStrip == {" ", ",", ":", "(", ")"}

\* the scan for the closing quote (lexer.py 181-190): its index, Len(line) + 1
\* when the string is not terminated.  A backslash sets escaped for the one
\* character after it, whatever it is, so the scan goes on two further.
RECURSIVE QuoteEnd(_, _)
QuoteEnd(line, j) ==
    LET k == SkipTo(line, j, {Quote, Backslash})
    IN IF k > Len(line) THEN Len(line) + 1
       ELSE IF Ch(line, k) = Quote THEN k
       ELSE IF k + 1 > Len(line) THEN Len(line) + 1
       ELSE QuoteEnd(line, k + 2)

\* the keyword phrase of plen down to 1 leading words (lexer.py 242-250);
\* chosen is "" when no phrase is a keyword
RECURSIVE MatchPhrase(_, _)
MatchPhrase(parts, plen) ==
    IF plen = 0 THEN [chosen |-> "", consumed |-> 0]
    ELSE LET joined == Join(parts, plen, " ")
         IN IF Len(parts) >= plen /\ Lower(StripSet(joined, PhraseStrip)) \in DOMAIN keywords
            THEN [chosen |-> Lower(StripSet(joined, PhraseStrip)), consumed |-> Len(joined)]
            ELSE MatchPhrase(parts, plen - 1)

\* float(num) for digits ip and fp around the point, as an exact rational
FloatOf(ip, fp) == Num(ParseInt(ip \o fp), IntPow(10, Len(fp)), FALSE)

\* the while loop of tokenize over one stripped line (lexer.py 176-277)
RECURSIVE ScanLine(_, _, _)
ScanLine(line, i, tokens) ==
    IF i > Len(line) THEN tokens
    ELSE LET ch == Ch(line, i)
         IN IF ch = Quote
            THEN LET j == QuoteEnd(line, i + 1)
                 IN ScanLine(line, SkipIn(line, IF j > Len(line) THEN j ELSE j + 1, Space),
                             Append(tokens, Token("STRING", StrV(SubSeq(line, i + 1, j - 1)))))
            ELSE IF ch \in Punct THEN ScanLine(line, i + 1, Append(tokens, Token(ch, StrV(ch))))
            ELSE IF ch = "." THEN ScanLine(line, i + 1, Append(tokens, Token("DOT", StrV("."))))
            ELSE IF ch \in Digits
            THEN LET e == SkipIn(line, i, Digits)
                     isFloat == e + 1 <= Len(line) /\ Ch(line, e) = "." /\ Ch(line, e + 1) \in Digits
                     f == IF isFloat THEN SkipIn(line, e + 1, Digits) ELSE e
                     tok == IF isFloat
                            THEN Token("FLOAT", FloatOf(SubSeq(line, i, e - 1), SubSeq(line, e + 1, f - 1)))
                            ELSE Token("INTEGER", IntV(ParseInt(SubSeq(line, i, e - 1))))
                 IN ScanLine(line, SkipIn(line, f, Space), Append(tokens, tok))
            ELSE LET w == SkipTo(line, i, WordStop)
                     word == SubSeq(line, i, w - 1)
                     lw == Lower(word)
                     m == MatchPhrase(Split(Strip(From(line, i))), 4)
                 IN IF w = i THEN ScanLine(line, i + 1, tokens)
                    ELSE IF m.chosen # ""
                    THEN ScanLine(line, SkipIn(line, i + m.consumed, Space),
                                  Append(tokens, Token(keywords[m.chosen], StrV(m.chosen))))
                    ELSE ScanLine(line, SkipIn(line, w, Space),
                                  Append(tokens,
                                         IF lw \in filler_words THEN Token("IGNORED", StrV(lw))
                                         ELSE IF lw \in DOMAIN keywords THEN Token(keywords[lw], StrV(lw))
                                         ELSE Token("IDENTIFIER", StrV(word))))

\* Lexer.tokenize (lexer.py 159-282): (indent, tokens) of each non-blank line
RECURSIVE tokenize(_)
tokenize(lns) ==
    IF lns = <<>> THEN <<>>
    ELSE LET raw_line == Head(lns)
         IN IF Strip(raw_line) = "" THEN tokenize(Tail(lns))
            ELSE <<[indent |-> SkipIn(raw_line, 1, {" "}) - 1,
                    tokens |-> ScanLine(Strip(raw_line), 1, <<>>)]>> \o tokenize(Tail(lns))

\* ---------------------------------------------------------------- parser
\* Node classes of nodes.py the evaluator of this model does not run.
InteractNode(v, b) == [N0 EXCEPT !.kind = "InteractNode", !.value = v, !.bold = b]
ObjectNode(x, b) == [N0 EXCEPT !.kind = "ObjectNode", !.name = x, !.body = b]
ButtonNode(x, parent, b) == [N0 EXCEPT !.kind = "ButtonNode", !.name = x, !.name2 = parent, !.body = b]
MathFuncNode(f, a) == [N0 EXCEPT !.kind = "MathFuncNode", !.name = f, !.args = a]
FileNode(action, filename, text) ==
    [N0 EXCEPT !.kind = "FileNode", !.name = action, !.name2 = filename, !.value = text]
GetLengthNode(target) == [N0 EXCEPT !.kind = "GetLengthNode", !.value = target]
GetCaseNode(target, mode) == [N0 EXCEPT !.kind = "GetCaseNode", !.value = target, !.name2 = mode]
GetTypeNode(target) == [N0 EXCEPT !.kind = "GetTypeNode", !.value = target]
ImportNode(modules, filename) == [N0 EXCEPT !.kind = "ImportNode", !.args = modules, !.name2 = filename]
ExportNode(modules) == [N0 EXCEPT !.kind = "ExportNode", !.args = modules]

\* IGNORED_TOKEN_TYPES (parser.py 6)
IGNORED_TOKEN_TYPES == {"IGNORED", "DOT"}

\* Parser._filtered_tokens (parser.py 32-53)
filtered_tokens(tokens) == SelectSeq(tokens, LAMBDA t : t.type \notin IGNORED_TOKEN_TYPES)

\* [t.type for t in tokens], as a set
Types(tokens) == {tokens[i].type : i \in DOMAIN tokens}

\* the indices from..Len(tokens) whose token has a type in tys
Where(tokens, from, tys) == {i \in from..Len(tokens) : tokens[i].type \in tys}
\* the first of them, 0 when there is none
FirstOf(tokens, from, tys) ==
    IF Where(tokens, from, tys) = {} THEN 0 ELSE Least(Where(tokens, from, tys))
\* the last of them, 0 when there is none
LastOf(tokens, from, tys) ==
    IF Where(tokens, from, tys) = {} THEN 0 ELSE Greatest(Where(tokens, from, tys))

\* [t.value for t in tokens[from-1:to] if t.type in tys]
ValuesOf(tokens, from, to, tys) ==
    LET sel == SelectSeq(SubSeq(tokens, from, to), LAMBDA t : t.type \in tys)
    IN [i \in 1..Len(sel) |-> sel[i].value]

\* the value of token k, None when k = 0
ValueAt(tokens, k) == IF k = 0 THEN Null ELSE tokens[k].value
\* the same for a token whose value is a str, used as a name
NameAt(tokens, k) == IF k = 0 THEN NoName ELSE tokens[k].value.s

\* str.isidentifier over ASCII
IsIdentifier(s) ==
    LET alpha == Letters \cup (DOMAIN UpperToLower) \cup {"_"}
    IN /\ s # "" /\ Ch(s, 1) \in alpha
       /\ \A i \in 1..Len(s) : Ch(s, i) \in alpha \cup Digits

ArgTypes == {"INTEGER", "FLOAT", "STRING", "BOOLEAN", "IDENTIFIER"}
LiteralTypes == ArgTypes \cup {"NULL"}

\* Parser._build_function_call_from_tokens (parser.py 289-338)
build_function_call_from_tokens(tokens) ==
    LET c == FirstOf(tokens, 1, {"CALL_FUNCTION"})
        j == IF c = 0 THEN 0 ELSE FirstOf(tokens, c + 1, {"STRING", "IDENTIFIER"})
        i == FirstOf(tokens, 1, {"IDENTIFIER"})
        close == FirstOf(tokens, i + 2, {")"})
    IN IF j > 0
       THEN FunctionCallNode(NameAt(tokens, j), ValuesOf(tokens, j + 1, Len(tokens), ArgTypes))
       ELSE IF i = 0 THEN FunctionCallNode(NoName, <<>>)
       ELSE IF i + 1 <= Len(tokens) /\ tokens[i + 1].type = "("
       THEN FunctionCallNode(NameAt(tokens, i),
                ValuesOf(tokens, i + 2, IF close = 0 THEN Len(tokens) ELSE close - 1, ArgTypes))
       ELSE FunctionCallNode(NameAt(tokens, i), ValuesOf(tokens, i + 1, Len(tokens), ArgTypes))

\* Parser.parse_display (parser.py 173-205)
parse_display(tokens) ==
    LET bold == "PLUS_BOLD" \in Types(tokens)
        fcall == build_function_call_from_tokens(tokens)
    IN IF Types(tokens) \cap {"CALL_FUNCTION", "("} # {}
       THEN [DisplayCallNode(fcall.name, fcall.args) EXCEPT !.bold = bold]
       ELSE [DisplayNode(ValueAt(tokens, FirstOf(tokens, 1, LiteralTypes))) EXCEPT !.bold = bold]

\* Parser.parse_interact (parser.py 207-218)
parse_interact(tokens) ==
    InteractNode(ValueAt(tokens, FirstOf(tokens, 1, {"STRING", "IDENTIFIER"})),
                 "PLUS_BOLD" \in Types(tokens))

\* Parser.parse_function_call (parser.py 340-344)
parse_function_call(tokens) == build_function_call_from_tokens(tokens)

\* Parser.parse_function_abbrev (parser.py 346-357)
parse_function_abbrev(tokens) ==
    LET names == Where(tokens, 1, {"STRING", "IDENTIFIER"})
    IN FunctionAbbrevNode(IF names = {} THEN NoName ELSE NameAt(tokens, Least(names)),
                          IF Cardinality(names) < 2 THEN NoName ELSE NameAt(tokens, Greatest(names)))

\* the first TO / BY token after index i that has a token after it, 0 if none
KeywordBeforeValue(tokens, i, ty) ==
    LET S == {j \in Where(tokens, i + 1, {ty}) : j + 1 <= Len(tokens)}
    IN IF S = {} THEN 0 ELSE Least(S)

\* the Set / Change branch of parse_variable_statement (parser.py 387-411)
SetOrChange(tokens, kind) ==
    LET i == FirstOf(tokens, 1, {"IDENTIFIER"})
        j == KeywordBeforeValue(tokens, i, "TO")
    IN [N0 EXCEPT !.kind = kind, !.name = NameAt(tokens, i),
                  !.value = IF i = 0 \/ j = 0 THEN Null ELSE tokens[j + 1].value]

ArithOps == <<"INCREASE", "DECREASE", "MULTIPLY", "DIVIDE", "EXPONENTIATE">>
ArithNodeOf == "INCREASE" :> "IncreaseNode" @@ "DECREASE" :> "DecreaseNode" @@
               "MULTIPLY" :> "MultiplyNode" @@ "DIVIDE" :> "DivideNode" @@
               "EXPONENTIATE" :> "ExponentiateNode"

\* Parser.parse_variable_statement (parser.py 362-436)
parse_variable_statement(tokens) ==
    LET types == Types(tokens)
        idx == FirstOf(tokens, 1, {"ASSIGN"})
        val == ValueAt(tokens, FirstOf(tokens, idx + 1, LiteralTypes))
        tos == {i \in Where(tokens, 1, {"TO"}) : i + 1 <= Len(tokens) /\ tokens[i + 1].type = "IDENTIFIER"}
        op == ArithOps[Least({k \in 1..5 : ArithOps[k] \in types})]
        i == FirstOf(tokens, 1, {op})
        j == KeywordBeforeValue(tokens, i, "BY")
    IN IF "ASSIGN" \in types
       THEN IF tos # {} THEN AssignNode(NameAt(tokens, Least(tos) + 1), val)
            ELSE IF val.t = "str" /\ IsIdentifier(val.s) THEN AssignNode(val.s, Null)
            ELSE AssignNode(NoName, val)
       ELSE IF "SET" \in types THEN SetOrChange(tokens, "SetNode")
       ELSE IF "CHANGE" \in types THEN SetOrChange(tokens, "ChangeNode")
       ELSE IF \E k \in 1..5 : ArithOps[k] \in types
       THEN [N0 EXCEPT !.kind = ArithNodeOf[op],
                       !.name = IF i + 1 <= Len(tokens) /\ tokens[i + 1].type = "IDENTIFIER"
                                THEN NameAt(tokens, i + 1) ELSE NoName,
                       !.value = IF j = 0 THEN Null ELSE tokens[j + 1].value]
       ELSE IF FirstOf(tokens, 1, {"IDENTIFIER"}) > 0
       THEN BlockVarNode(NameAt(tokens, FirstOf(tokens, 1, {"IDENTIFIER"})))
       ELSE N0

ElementTypes == {"INTEGER", "FLOAT", "STRING", "IDENTIFIER", "BOOLEAN"}

\* Parser.parse_list (parser.py 438-448)
parse_list(tokens) ==
    ListNode(NameAt(tokens, FirstOf(tokens, 1, {"IDENTIFIER"})),
             ValuesOf(tokens, 1, Len(tokens), ElementTypes))

\* Parser.parse_list_add (parser.py 450-462)
parse_list_add(tokens) ==
    ListAddNode(NameAt(tokens, LastOf(tokens, 1, {"IDENTIFIER"})),
                ValueAt(tokens, FirstOf(tokens, 1, ElementTypes)))

\* elements[key] = val on the dict kept as the sequences ks (keys, in
\* insertion order) and vs (values)
DictSet(e, key, val) ==
    IF \E i \in DOMAIN e.ks : e.ks[i] = key
    THEN [e EXCEPT !.vs[CHOOSE i \in DOMAIN e.ks : e.ks[i] = key] = val]
    ELSE [ks |-> Append(e.ks, key), vs |-> Append(e.vs, val)]

\* the second loop of parse_dictionary from token idx on (parser.py 616-622)
RECURSIVE DictElements(_, _, _)
DictElements(tokens, idx, e) ==
    IF idx > Len(tokens) THEN e
    ELSE LET r == FirstOf(tokens, idx + 1, ElementTypes)
         IN DictElements(tokens, idx + 1,
                IF tokens[idx].type = "IDENTIFIER" /\ r > 0
                THEN DictSet(e, tokens[idx].value.s, tokens[r].value) ELSE e)

\* Parser.parse_dictionary (parser.py 608-623)
parse_dictionary(tokens) ==
    LET e == DictElements(tokens, 1, [ks |-> <<>>, vs |-> <<>>])
    IN DictionaryNode(NameAt(tokens, FirstOf(tokens, 1, {"IDENTIFIER"})), e.ks, e.vs)

MathTypes == {"SQUARE", "SQUAREROOT", "GCD", "LCM", "RANDOM_INT"}
FileTypes == {"FILE_CREATE", "FILE_DELETE", "FILE_WRITE", "FILE_FIND", "FILE_REPLACE",
              "FILE_RENAME", "FILE_ACCESS"}
GetterTypes == {"GET_LENGTH", "GET_CASE", "GET_TYPE"}
CaseModes == {"upper", "lower", "camel", "snake", "pascal"}

\* Parser.parse_math_func (parser.py 533-543)
parse_math_func(tokens) ==
    LET k == LastOf(tokens, 1, MathTypes)
    IN MathFuncNode(IF k = 0 THEN NoName ELSE tokens[k].type,
                    ValuesOf(tokens, 1, Len(tokens), {"INTEGER", "FLOAT", "IDENTIFIER"}))

\* Parser.parse_file (parser.py 545-568): bold holds at_first, args the
\* find_text and replace_text when they are set
parse_file(tokens) ==
    LET k == LastOf(tokens, 1, FileTypes)
        first == FirstOf(tokens, 1, {"STRING"})
        last == LastOf(tokens, first + 1, {"STRING"})
        strs == ValuesOf(tokens, 1, Len(tokens), {"STRING"})
        node == FileNode(IF k = 0 THEN NoName ELSE tokens[k].type, NameAt(tokens, first),
                         IF first = 0 THEN Null ELSE ValueAt(tokens, last))
    IN [node EXCEPT !.bold = "AT_FIRST" \in Types(tokens),
                    !.args = IF {"FILE_FIND", "FILE_REPLACE"} \subseteq Types(tokens) /\ Len(strs) >= 3
                             THEN <<strs[2], strs[3]>> ELSE <<>>]

\* Parser.parse_getter (parser.py 570-588)
parse_getter(tokens) ==
    LET target == ValueAt(tokens, FirstOf(tokens, 1, {"IDENTIFIER", "STRING"}))
        modes == {i \in DOMAIN tokens : tokens[i].value.t = "str" /\ Lower(tokens[i].value.s) \in CaseModes}
        mode == IF modes = {} THEN NoName ELSE Lower(tokens[Greatest(modes)].value.s)
    IN IF "GET_LENGTH" \in Types(tokens) THEN GetLengthNode(target)
       ELSE IF "GET_CASE" \in Types(tokens) THEN GetCaseNode(target, mode)
       ELSE IF "GET_TYPE" \in Types(tokens) THEN GetTypeNode(target)
       ELSE N0

\* Parser.parse_import (parser.py 590-600)
parse_import(tokens) ==
    ImportNode(ValuesOf(tokens, 1, Len(tokens), {"IDENTIFIER"}),
               NameAt(tokens, LastOf(tokens, 1, {"STRING"})))

\* Parser.parse_export (parser.py 602-606)
parse_export(tokens) == ExportNode(ValuesOf(tokens, 1, Len(tokens), {"IDENTIFIER"}))

\* the args loop of parse_function_def (parser.py 275-285): the identifiers
\* whose nearest parenthesis to the left is an opening one
FunctionArgs(tokens) ==
    LET collected(i) == /\ tokens[i].type = "IDENTIFIER"
                        /\ LastOf(SubSeq(tokens, 1, i - 1), 1, {"(", ")"}) > 0
                        /\ tokens[LastOf(SubSeq(tokens, 1, i - 1), 1, {"(", ")"})].type = "("
        sel == SelectSeq([i \in DOMAIN tokens |-> i], collected)
    IN [k \in 1..Len(sel) |-> tokens[sel[k]].value.s]

\* The handlers of the statements that own a block (parser.py 223-255,
\* 260-287, 467-528) build the node here without its body; parse_statement
\* adds the body _collect_block returns.
parse_window(tokens) == ObjectNode(NameAt(tokens, FirstOf(tokens, 1, {"IDENTIFIER", "STRING"})), <<>>)

parse_button(tokens) ==
    LET ins == {i \in Where(tokens, 1, {"IN"}) : i + 1 <= Len(tokens) /\ tokens[i + 1].type = "IDENTIFIER"}
    IN ButtonNode(NameAt(tokens, FirstOf(tokens, 1, {"IDENTIFIER"})),
                  IF ins = {} THEN NoName ELSE NameAt(tokens, Least(ins) + 1), <<>>)

parse_function_def(tokens) ==
    FunctionDefNode(NameAt(tokens, FirstOf(tokens, 1, {"STRING", "IDENTIFIER"})),
                    FunctionArgs(tokens), <<>>)

parse_if(tokens) == IfNode(ValueAt(tokens, FirstOf(tokens, 1, LiteralTypes)), <<>>)
parse_or_if(tokens) == OrIfNode(ValueAt(tokens, FirstOf(tokens, 1, LiteralTypes)), <<>>)
parse_otherwise(tokens) == OtherwiseNode(<<>>)
parse_repeat(tokens) == RepeatNode(ValueAt(tokens, FirstOf(tokens, 1, {"INTEGER", "IDENTIFIER"})), <<>>)
parse_do_until(tokens) == DoUntilNode(ValueAt(tokens, FirstOf(tokens, 1, LiteralTypes)), <<>>)

parse_for_each(tokens) ==
    LET ins == {i \in Where(tokens, 1, {"IN"}) : i + 1 <= Len(tokens) /\ tokens[i + 1].type = "IDENTIFIER"}
    IN ForEachNode(NameAt(tokens, FirstOf(tokens, 1, {"IDENTIFIER"})),
                   IF ins = {} THEN NoName ELSE NameAt(tokens, Greatest(ins) + 1), <<>>)

\* the dispatch testing for Display after every other statement
Dispatch_displayLast(tokens) ==
    LET types == Types(tokens)
        has(s) == types \cap s # {}
    IN IF has({"INTERACT"}) THEN "parse_interact"
       ELSE IF has({"CREATE_WINDOW", "WINDOW"}) THEN "parse_window"
       ELSE IF has({"CREATE_BUTTON", "BUTTON"}) THEN "parse_button"
       ELSE IF has({"CREATE_LIST"}) THEN "parse_list"
       ELSE IF has({"ADD"}) /\ (\E i \in DOMAIN tokens :
                   tokens[i].type = "IDENTIFIER" /\ Lower(tokens[i].value.s) = "list")
       THEN "parse_list_add"
       ELSE IF has({"ASSIGN", "SET", "CHANGE", "INCREASE", "DECREASE", "MULTIPLY", "DIVIDE",
                    "EXPONENTIATE", "BLOCK"}) THEN "parse_variable_statement"
       ELSE IF has({"DEFINE_FUNCTION"}) THEN "parse_function_def"
       ELSE IF has({"CALL_FUNCTION"}) \/ (tokens[1].type = "IDENTIFIER" /\
                   Where(tokens, 2, {"INTEGER", "FLOAT", "STRING", "BOOLEAN"}) # {})
       THEN "parse_function_call"
       ELSE IF has({"ABBREV_FUNCTION"}) THEN "parse_function_abbrev"
       ELSE IF has({"IF"}) THEN "parse_if"
       ELSE IF has({"ORIF"}) THEN "parse_or_if"
       ELSE IF has({"OTHERWISE"}) THEN "parse_otherwise"
       ELSE IF has({"REPEAT"}) THEN "parse_repeat"
       ELSE IF has({"DOUNTIL"}) THEN "parse_do_until"
       ELSE IF has({"FOREACH"}) THEN "parse_for_each"
       ELSE IF has(MathTypes) THEN "parse_math_func"
       ELSE IF has(FileTypes) THEN "parse_file"
       ELSE IF has(GetterTypes) THEN "parse_getter"
       ELSE IF has({"IMPORT"}) THEN "parse_import"
       ELSE IF has({"EXPORTS"}) THEN "parse_export"
       ELSE IF has({"CREATE_DICT", "CONTAINING"}) THEN "parse_dictionary"
       ELSE IF has({"DISPLAY"}) THEN "parse_display"
       ELSE ""

\* the dispatch of parse_statement (parser.py 81-141): the handler the line
\* goes to, the first whose test holds, "" for an unknown line
Dispatch(tokens) ==
    LET types == Types(tokens)
        has(s) == types \cap s # {}
    IN IF has({"DISPLAY"}) THEN "parse_display"
       ELSE IF has({"INTERACT"}) THEN "parse_interact"
       ELSE IF has({"CREATE_WINDOW", "WINDOW"}) THEN "parse_window"
       ELSE IF has({"CREATE_BUTTON", "BUTTON"}) THEN "parse_button"
       ELSE IF has({"CREATE_LIST"}) THEN "parse_list"
       ELSE IF has({"ADD"}) /\ (\E i \in DOMAIN tokens :
                   tokens[i].type = "IDENTIFIER" /\ Lower(tokens[i].value.s) = "list")
       THEN "parse_list_add"
       ELSE IF has({"ASSIGN", "SET", "CHANGE", "INCREASE", "DECREASE", "MULTIPLY", "DIVIDE",
                    "EXPONENTIATE", "BLOCK"}) THEN "parse_variable_statement"
       ELSE IF has({"DEFINE_FUNCTION"}) THEN "parse_function_def"
       ELSE IF has({"CALL_FUNCTION"}) \/ (tokens[1].type = "IDENTIFIER" /\
                   Where(tokens, 2, {"INTEGER", "FLOAT", "STRING", "BOOLEAN"}) # {})
       THEN "parse_function_call"
       ELSE IF has({"ABBREV_FUNCTION"}) THEN "parse_function_abbrev"
       ELSE IF has({"IF"}) THEN "parse_if"
       ELSE IF has({"ORIF"}) THEN "parse_or_if"
       ELSE IF has({"OTHERWISE"}) THEN "parse_otherwise"
       ELSE IF has({"REPEAT"}) THEN "parse_repeat"
       ELSE IF has({"DOUNTIL"}) THEN "parse_do_until"
       ELSE IF has({"FOREACH"}) THEN "parse_for_each"
       ELSE IF has(MathTypes) THEN "parse_math_func"
       ELSE IF has(FileTypes) THEN "parse_file"
       ELSE IF has(GetterTypes) THEN "parse_getter"
       ELSE IF has({"IMPORT"}) THEN "parse_import"
       ELSE IF has({"EXPORTS"}) THEN "parse_export"
       ELSE IF has({"CREATE_DICT", "CONTAINING"}) THEN "parse_dictionary"
       ELSE ""

\* the handlers that go on to collect the indented block under the line
BlockHandlers == {"parse_window", "parse_button", "parse_function_def", "parse_if",
                  "parse_or_if", "parse_otherwise", "parse_repeat", "parse_do_until",
                  "parse_for_each"}

\* the node handler h builds from the line, a block owner still without its
\* body; N0 stands for None
Handle(h, tokens) ==
    CASE h = "parse_display" -> parse_display(tokens)
      [] h = "parse_interact" -> parse_interact(tokens)
      [] h = "parse_window" -> parse_window(tokens)
      [] h = "parse_button" -> parse_button(tokens)
      [] h = "parse_list" -> parse_list(tokens)
      [] h = "parse_list_add" -> parse_list_add(tokens)
      [] h = "parse_variable_statement" -> parse_variable_statement(tokens)
      [] h = "parse_function_def" -> parse_function_def(tokens)
      [] h = "parse_function_call" -> parse_function_call(tokens)
      [] h = "parse_function_abbrev" -> parse_function_abbrev(tokens)
      [] h = "parse_if" -> parse_if(tokens)
      [] h = "parse_or_if" -> parse_or_if(tokens)
      [] h = "parse_otherwise" -> parse_otherwise(tokens)
      [] h = "parse_repeat" -> parse_repeat(tokens)
      [] h = "parse_do_until" -> parse_do_until(tokens)
      [] h = "parse_for_each" -> parse_for_each(tokens)
      [] h = "parse_math_func" -> parse_math_func(tokens)
      [] h = "parse_file" -> parse_file(tokens)
      [] h = "parse_getter" -> parse_getter(tokens)
      [] h = "parse_import" -> parse_import(tokens)
      [] h = "parse_export" -> parse_export(tokens)
      [] h = "parse_dictionary" -> parse_dictionary(tokens)
      [] OTHER -> N0

RECURSIVE parse_statement(_, _), collect_block(_, _, _), collect_while(_, _, _, _)

\* collect_while leaving the cursor one line past the end of the block
RECURSIVE collect_while_skip(_, _, _, _)
collect_while_skip(TL, base_indent, p, block_nodes) ==
    IF p < Len(TL) /\ TL[p + 1].indent >= base_indent
    THEN LET r == parse_statement(TL, p)
         IN collect_while_skip(TL, base_indent, r.pos, block_nodes \o r.nodes)
    ELSE [nodes |-> block_nodes, pos |-> IF p < Len(TL) THEN p + 1 ELSE p]

\* the while loop of _collect_block (parser.py 161-167)
collect_while(TL, base_indent, p, block_nodes) ==
    IF p < Len(TL) /\ TL[p + 1].indent >= base_indent
    THEN LET r == parse_statement(TL, p)
         IN collect_while(TL, base_indent, r.pos, block_nodes \o r.nodes)
    ELSE [nodes |-> block_nodes, pos |-> p]

\* collect_block taking a next line at the header's own indentation as a body
collect_block_sameIndent(TL, parent_indent, p) ==
    IF p >= Len(TL) THEN [nodes |-> <<>>, pos |-> p]
    ELSE IF TL[p + 1].indent < parent_indent THEN [nodes |-> <<>>, pos |-> p]
    ELSE collect_while(TL, TL[p + 1].indent, p, <<>>)

\* Parser._collect_block (parser.py 144-168) with the cursor at p: the nodes
\* of the block and the cursor after it
collect_block(TL, parent_indent, p) ==
    IF p >= Len(TL) THEN [nodes |-> <<>>, pos |-> p]
    ELSE IF TL[p + 1].indent <= parent_indent THEN [nodes |-> <<>>, pos |-> p]
    ELSE collect_while(TL, TL[p + 1].indent, p, <<>>)

\* Parser.parse_statement (parser.py 67-141) with the cursor at p: the node
\* it returns (none for None) and the cursor after it
parse_statement(TL, p) ==
    IF p >= Len(TL) THEN [nodes |-> <<>>, pos |-> p]
    ELSE LET cur == TL[p + 1]
             tokens == filtered_tokens(cur.tokens)
             h == IF tokens = <<>> THEN "" ELSE Dispatch(tokens)
             node == Handle(h, tokens)
             blk == collect_block(TL, cur.indent, p + 1)
         IN IF h \in BlockHandlers
            THEN [nodes |-> <<[node EXCEPT !.body = blk.nodes]>>, pos |-> blk.pos]
            ELSE [nodes |-> IF node.kind = "None" THEN <<>> ELSE <<node>>, pos |-> p + 1]

\* The lines (1-based indices into TL) that the call of parse_statement with
\* the cursor at p hands to statement parsing, in the order it does: its own
\* line (self.current() at parser.py 68) and, for a block statement, the lines
\* the calls made by _collect_block take (parser.py 161-162).
RECURSIVE handed_statement(_, _)
RECURSIVE handed_while(_, _, _, _)
handed_while(TL, base_indent, p, seen) ==
    IF p < Len(TL) /\ TL[p + 1].indent >= base_indent
    THEN handed_while(TL, base_indent, parse_statement(TL, p).pos, seen \o handed_statement(TL, p))
    ELSE seen

handed_block(TL, parent_indent, p) ==
    IF p >= Len(TL) THEN <<>>
    ELSE IF TL[p + 1].indent <= parent_indent THEN <<>>
    ELSE handed_while(TL, TL[p + 1].indent, p, <<>>)

handed_statement(TL, p) ==
    IF p >= Len(TL) THEN <<>>
    ELSE LET cur == TL[p + 1]
             tokens == filtered_tokens(cur.tokens)
             h == IF tokens = <<>> THEN "" ELSE Dispatch(tokens)
         IN IF h \in BlockHandlers
            THEN <<p + 1>> \o handed_block(TL, cur.indent, p + 1)
            ELSE <<p + 1>>

\* ---- the parser copy of python_code, as far as it decides which handler a
\* line goes to and which lines a handler takes
\* the dispatch of its parse_statement (python_code/parser.py 54-126): the
\* handler the line goes to, "" for an unknown line
py_Dispatch(tokens) ==
    LET types == Types(tokens)
        has(s) == types \cap s # {}
    IN IF has({"DISPLAY"}) THEN "parse_display"
       ELSE IF has({"INTERACT"}) THEN "parse_interact"
       ELSE IF has({"CREATE_LIST"}) THEN "parse_list"
       ELSE IF has({"ADD"}) /\ (\E i \in DOMAIN tokens :
                   tokens[i].type = "IDENTIFIER" /\ Lower(tokens[i].value.s) = "list")
       THEN "parse_list_add"
       ELSE IF has({"FOREACH"}) THEN "parse_for_each"
       ELSE IF has({"ASSIGN", "SET", "CHANGE", "INCREASE", "DECREASE", "MULTIPLY", "DIVIDE",
                    "EXPONENTIATE", "BLOCK"}) THEN "parse_variable_statement"
       ELSE IF has({"DEFINE_FUNCTION"}) THEN "parse_function_def"
       ELSE IF has({"CALL_FUNCTION"}) \/ (tokens[1].type = "IDENTIFIER" /\ Len(tokens) > 1 /\
                   tokens[2].type = "(")
       THEN "parse_function_call"
       ELSE IF has({"ABBREV_FUNCTION"}) THEN "parse_function_abbrev"
       ELSE IF has({"IF"}) THEN "parse_if"
       ELSE IF has({"ORIF"}) THEN "parse_or_if"
       ELSE IF has({"OTHERWISE"}) THEN "parse_otherwise"
       ELSE IF has({"REPEAT"}) THEN "parse_repeat"
       ELSE IF has({"DOUNTIL"}) THEN "parse_do_until"
       ELSE IF has(MathTypes) THEN "parse_math_func"
       ELSE IF has(FileTypes) THEN "parse_file"
       ELSE IF has(GetterTypes) THEN "parse_getter"
       ELSE IF has({"IMPORT"}) THEN "parse_import"
       ELSE IF has({"EXPORTS"}) THEN "parse_export"
       ELSE IF has({"CREATE_DICT", "CONTAINING"}) THEN "parse_dictionary"
       ELSE ""

\* its handlers that go on to call _collect_block
py_BlockHandlers == {"parse_for_each", "parse_function_def", "parse_if", "parse_or_if",
                     "parse_otherwise", "parse_repeat", "parse_do_until"}

\* The parent_indent handler h passes to _collect_block once the cursor is at
\* p, past the header.  parse_function_def reads the indentation of the line
\* then at the cursor, 0 at the end of the text (python_code/parser.py
\* 345-349); parse_repeat passes None, which stands for the line before the
\* cursor (435, 562-563); the others pass the header's (321, 407, 418, 424, 446).
py_parent_indent(TL, h, p) ==
    IF h = "parse_function_def"
    THEN IF p < Len(TL) THEN TL[p + 1].indent ELSE 0
    ELSE TL[p].indent

\* The lines (1-based indices into TL) the python_code call of parse_statement
\* with the cursor at p takes: its own line and, for a block statement, the
\* lines taken by the calls _collect_block makes (python_code/parser.py
\* 42-131, 552-578).  The cursor ends after the last of them.
RECURSIVE py_handed_statement(_, _)
RECURSIVE py_handed_while(_, _, _, _)
py_handed_while(TL, base_indent, p, seen) ==
    IF p < Len(TL) /\ TL[p + 1].indent >= base_indent
    THEN LET here == py_handed_statement(TL, p)
         IN py_handed_while(TL, base_indent, p + Len(here), seen \o here)
    ELSE seen

py_handed_block(TL, parent_indent, p) ==
    IF p >= Len(TL) THEN <<>>
    ELSE IF TL[p + 1].indent <= parent_indent THEN <<>>
    ELSE py_handed_while(TL, TL[p + 1].indent, p, <<>>)

py_handed_statement(TL, p) ==
    IF p >= Len(TL) THEN <<>>
    ELSE LET tokens == TL[p + 1].tokens
             h == IF tokens = <<>> THEN "" ELSE py_Dispatch(tokens)
         IN IF h \in py_BlockHandlers
            THEN <<p + 1>> \o py_handed_block(TL, py_parent_indent(TL, h, p + 1), p + 1)
            ELSE <<p + 1>>

\* ---------------------------------------------------------------- state
VARIABLES
    variables,   \* self.variables: name -> value
    functions,   \* self.functions: name -> FunctionDefNode
    lists,       \* self.lists: name -> list reference
    dicts,       \* self.dicts: name -> dict reference
    heap,        \* the list and dict objects, by reference
    call_stack,  \* self.call_stack
    output,      \* the values print wrote, one per console line
    kont,        \* the Python frames executing a statement list, innermost last
    err,         \* the exception that ended the run, "" while none
    fed,         \* number of top-level statements handed to execute so far
    impl,        \* the copy that runs: "caml" (caml/caml-code) or "py" (python_code)
    raw,         \* Lexer.raw: the text of the source file
    lines,       \* Lexer.lines
    token_lines, \* Lexer.tokens, handed to the Parser as token_lines
    pos,         \* Parser.pos
    ast,         \* the list parse() is building
    pc           \* the stage of run_file that runs: "lexer", "tokenize", "parser", "interpreter"

\* the state of the front end
Front == <<raw, lines, token_lines, pos, ast, pc>>

vars == <<variables, functions, lists, dicts, heap, call_stack, output, kont, err, fed, impl, Front>>

\* A frame: the statement list body being run and the position i in it.
\*   top      execute(ast)
\*   block    the body of an If / OrIf / Otherwise
\*   repeat   a Repeat body, n iterations still to start after this one
\*   until    a Do-until body
\*   foreach  a ForEach body over list object obj, n the index of the item bound
\*   call     a user function body: old_vars, ret as in visit_FunctionCallNode;
\*            results records the value each body statement returned (history)
F0 == [k |-> "top", body |-> <<>>, i |-> 1, n |-> 0, obj |-> 0,
       old_vars |-> EmptyMap, ret |-> Null, results |-> <<>>, node |-> N0]

Top == kont[Len(kont)]
Cur == Top.body[Top.i]
Pop(K) == SubSeq(K, 1, Len(K) - 1)

\* a statement is about to be visited
AtStmt == err = "" /\ kont # <<>> /\ Top.i <= Len(Top.body)
At(kind) == AtStmt /\ Cur.kind = kind
\* the innermost statement list has run to its end
AtEnd(k) == err = "" /\ kont # <<>> /\ Top.k = k /\ Top.i > Len(Top.body)

\* Finish with the running result overwritten by every statement, None too
Finish_overwrite(K, r) ==
    LET f == K[Len(K)]
    IN [K EXCEPT ![Len(K)] =
          [f EXCEPT !.i = f.i + 1,
                    !.ret = IF f.k = "call" THEN r ELSE f.ret,
                    !.results = IF f.k = "call" THEN Append(f.results, r) ELSE f.results]]

\* The innermost frame of K after its current statement returned r: the loop
\* over the body moves on; a function body keeps r when it is not None
\* (interpreter.py 127-130).
Finish(K, r) ==
    LET f == K[Len(K)]
    IN [K EXCEPT ![Len(K)] =
          [f EXCEPT !.i = f.i + 1,
                    !.ret = IF f.k = "call" /\ r # Null THEN r ELSE f.ret,
                    !.results = IF f.k = "call" THEN Append(f.results, r) ELSE f.results]]

\* ---------------------------------------------------------------- utilities
\* resolve_in looking in the scalars first
resolve_in_scalarFirst(v, L, D, V) ==
    IF v.t \in {"int", "float", "bool", "null"} THEN v
    ELSE IF v.t = "str"
         THEN IF v.s \in DOMAIN V THEN V[v.s]
              ELSE IF v.s \in DOMAIN L THEN L[v.s]
              ELSE IF v.s \in DOMAIN D THEN D[v.s]
              ELSE v
         ELSE v

\* Interpreter._resolve_value on a str / number / None (interpreter.py 407-423)
resolve_in(v, L, D, V) ==
    IF v.t \in {"int", "float", "bool", "null"} THEN v
    ELSE IF v.t = "str"
         THEN IF v.s \in DOMAIN L THEN L[v.s]
              ELSE IF v.s \in DOMAIN D THEN D[v.s]
              ELSE IF v.s \in DOMAIN V THEN V[v.s]
              ELSE v
         ELSE v

resolve_value(v) == resolve_in(v, lists, dicts, variables)

\* Interpreter._get_var: self.variables.get(name)
get_var(name) == IF name \in DOMAIN variables THEN variables[name] ELSE Null

\* Interpreter._set_var: the new self.variables
set_var(name, value) == Put(variables, name, resolve_value(value))

\* Truthy taking every list and dict for true
Truthy_containersTrue(v) ==
    CASE v.t \in {"int", "float", "bool"} -> v.n # 0
      [] v.t = "str" -> v.s # ""
      [] v.t = "null" -> FALSE
      [] v.t \in {"list", "dict"} -> TRUE

\* bool(val) of Python
Truthy(v) ==
    CASE v.t \in {"int", "float", "bool"} -> v.n # 0
      [] v.t = "str" -> v.s # ""
      [] v.t = "null" -> FALSE
      [] v.t \in {"list", "dict"} -> Len(heap[v.n].items) > 0

\* Interpreter._evaluate_condition (interpreter.py 431-433)
evaluate_condition(cond) == Truthy(resolve_value(cond))

Env == <<variables, functions, lists, dicts, heap, call_stack>>

\* ---------------------------------------------------------------- visitors
\* visit_AssignNode / visit_SetNode / visit_ChangeNode (interpreter.py 55-63)
visit_AssignNode ==
    /\ AtStmt /\ Cur.kind \in {"AssignNode", "SetNode", "ChangeNode"}
    /\ variables' = set_var(Cur.name, Cur.value)
    /\ kont' = Finish(kont, Null)
    /\ UNCHANGED <<functions, lists, dicts, heap, call_stack, output, err, fed, impl, Front>>

ArithKinds == {"IncreaseNode", "DecreaseNode", "MultiplyNode", "DivideNode", "ExponentiateNode"}

\* python_code multiplies without looking at the operand: int * str and
\* int * list repeat the sequence (python_code/interpreter.py 74-79)
SeqRepeat(kind, cur, val) ==
    /\ impl = "py" /\ kind = "MultiplyNode"
    /\ cur.t \in {"int", "bool"} /\ val.t \in {"str", "list"}

\* ArithError taking a target that holds no number for the number 0
ArithError_coerce(kind, cur, val) ==
    IF ~IsNum(cur) THEN ""
    ELSE IF ~IsNum(val) THEN (IF SeqRepeat(kind, cur, val) THEN "" ELSE "TypeError")
    ELSE IF kind = "DivideNode" /\ val.n = 0 THEN "ZeroDivisionError"
    ELSE IF kind = "ExponentiateNode" /\ val.n < 0 /\ cur.n = 0 THEN "ZeroDivisionError"
    ELSE ""

\* ArithError reporting a zero divisor the way divide of builtins.py does
ArithError_valueError(kind, cur, val) ==
    IF ~IsNum(cur) THEN "TypeError"
    ELSE IF ~IsNum(val) THEN (IF SeqRepeat(kind, cur, val) THEN "" ELSE "TypeError")
    ELSE IF kind = "DivideNode" /\ val.n = 0 THEN "ValueError"
    ELSE IF kind = "ExponentiateNode" /\ val.n < 0 /\ cur.n = 0 THEN "ZeroDivisionError"
    ELSE ""

\* the exception cur <op> val raises, "" when it raises none: caml-code asks
\* for two numbers (interpreter.py 68), python_code for a numeric cur and
\* leaves the operand to Python (python_code/interpreter.py 60)
ArithError(kind, cur, val) ==
    IF ~IsNum(cur) THEN "TypeError"
    ELSE IF ~IsNum(val) THEN (IF SeqRepeat(kind, cur, val) THEN "" ELSE "TypeError")
    ELSE IF kind = "DivideNode" /\ val.n = 0 THEN "ZeroDivisionError"
    ELSE IF kind = "ExponentiateNode" /\ val.n < 0 /\ cur.n = 0 THEN "ZeroDivisionError"
    ELSE ""

ArithValue(kind, cur, val) ==
    CASE kind = "IncreaseNode" -> PyAdd(cur, val)
      [] kind = "DecreaseNode" -> PySub(cur, val)
      [] kind = "MultiplyNode" -> PyMul(cur, val)
      [] kind = "DivideNode" -> PyDiv(cur, val)
      [] kind = "ExponentiateNode" -> PyPow(cur, val)

\* visit_IncreaseNode .. visit_ExponentiateNode (interpreter.py 65-103).  The
\* model keeps rationals only: an exponent is integral.
visit_ArithNode ==
    /\ AtStmt /\ Cur.kind \in ArithKinds
    /\ LET cur == get_var(Cur.name)
           val == resolve_value(Cur.value)
           e == ArithError(Cur.kind, cur, val)
       IN /\ ~SeqRepeat(Cur.kind, cur, val)
          /\ (Cur.kind = "ExponentiateNode" /\ IsNum(val)) => val.d = 1
          /\ IF e = ""
             THEN /\ variables' = set_var(Cur.name, ArithValue(Cur.kind, cur, val))
                  /\ kont' = Finish(kont, Null)
                  /\ err' = err
             ELSE /\ err' = e
                  /\ UNCHANGED <<variables, kont>>
    /\ UNCHANGED <<functions, lists, dicts, heap, call_stack, output, fed, impl, Front>>

RECURSIVE StrTimes(_, _)
StrTimes(x, k) == IF k <= 0 THEN "" ELSE x \o StrTimes(x, k - 1)

RECURSIVE SeqTimes(_, _)
SeqTimes(x, k) == IF k <= 0 THEN <<>> ELSE x \o SeqTimes(x, k - 1)

\* visit_MultiplyNode of python_code on a str or list operand: cur * val is
\* the sequence repeated, a new object for a list
visit_MultiplyNode_repeat ==
    /\ At("MultiplyNode")
    /\ LET cur == get_var(Cur.name)
           val == resolve_value(Cur.value)
       IN /\ SeqRepeat(Cur.kind, cur, val)
          /\ IF val.t = "str"
             THEN /\ variables' = set_var(Cur.name, StrV(StrTimes(val.s, cur.n)))
                  /\ heap' = heap
             ELSE /\ Len(heap) < MaxHeap
                  /\ heap' = Append(heap, [kind |-> "list", keys |-> <<>>,
                                           items |-> SeqTimes(heap[val.n].items, cur.n)])
                  /\ variables' = set_var(Cur.name, ListRef(Len(heap) + 1))
    /\ kont' = Finish(kont, Null)
    /\ UNCHANGED <<functions, lists, dicts, call_stack, output, err, fed, impl, Front>>

\* visit_BlockVarNode (interpreter.py 105-107)
visit_BlockVarNode ==
    /\ At("BlockVarNode")
    /\ variables' = Del(variables, Cur.name)
    /\ kont' = Finish(kont, Null)
    /\ UNCHANGED <<functions, lists, dicts, heap, call_stack, output, err, fed, impl, Front>>

\* print(*line): one console line holding the values printed
Emit(line) == Len(output) < MaxOut /\ output' = Append(output, line)

\* The statement of the innermost frame of K that is a call (a FunctionCallNode,
\* or a DisplayNode around one, interpreter.py 34-43) gets the call's value r.
Deliver(K, node, r) ==
    IF node.kind = "DisplayNode"
    THEN /\ Emit(<<r>>)
         /\ kont' = Finish(K, r)
    ELSE /\ output' = output
         /\ kont' = Finish(K, r)

\* visit_DisplayNode on a literal or identifier (interpreter.py 32-43;
\* python_code/interpreter.py 26-31 returns nothing)
visit_DisplayNode ==
    /\ At("DisplayNode") /\ ~Cur.call /\ ~Cur.bold
    /\ LET out == resolve_value(Cur.value)
       IN /\ Emit(<<out>>)
          /\ kont' = Finish(kont, IF impl = "caml" THEN out ELSE Null)
    /\ UNCHANGED <<variables, functions, lists, dicts, heap, call_stack, err, fed, impl, Front>>

\* ---- functions
\* visit_FunctionDefNode (interpreter.py 110-112)
visit_FunctionDefNode ==
    /\ At("FunctionDefNode")
    /\ functions' = Put(functions, Cur.name, Cur)
    /\ kont' = Finish(kont, Null)
    /\ UNCHANGED <<variables, lists, dicts, heap, call_stack, output, err, fed, impl, Front>>

\* visit_FunctionAbbrevNode (interpreter.py 144-147)
visit_FunctionAbbrevNode ==
    /\ At("FunctionAbbrevNode")
    /\ functions' = IF Cur.name \in DOMAIN functions
                    THEN Put(functions, Cur.name2, functions[Cur.name])
                    ELSE functions
    /\ kont' = Finish(kont, Null)
    /\ UNCHANGED <<variables, lists, dicts, heap, call_stack, output, err, fed, impl, Front>>

Min(a, b) == IF a < b THEN a ELSE b

\* Locals binding every parameter to the first argument
Locals_first(params, args) ==
    [p \in {params[j] : j \in 1..Min(Len(params), Len(args))} |-> resolve_value(args[1])]

\* local = {name: resolve(argval) for name, argval in zip(func.args, node.args)}
\* (interpreter.py 120-122): a name declared twice keeps its last argument
Locals(params, args) ==
    LET m == Min(Len(params), Len(args))
        last(p) == CHOOSE j \in 1..m : params[j] = p /\ \A q \in (j + 1)..m : params[q] # p
    IN [p \in {params[j] : j \in 1..m} |-> resolve_value(args[last(p)])]

IsCall == AtStmt /\ (Cur.kind = "FunctionCallNode" \/ (Cur.kind = "DisplayNode" /\ Cur.call))

\* visit_FunctionCallNode, a user function is found (interpreter.py 116-125):
\* the frame of the body starts; Python refuses one frame too many
call_user_function ==
    /\ IsCall /\ Cur.name \in DOMAIN functions
    /\ LET func == functions[Cur.name]
       IN IF Len(call_stack) >= MaxDepth
          THEN /\ err' = "RecursionError"
               /\ UNCHANGED <<variables, call_stack, kont>>
          ELSE /\ variables' = Merge(variables, Locals(func.params, Cur.args))
               /\ call_stack' = Append(call_stack, func.name)
               /\ kont' = Append(kont, [F0 EXCEPT !.k = "call", !.body = func.body,
                                                   !.old_vars = variables, !.node = Cur])
               /\ err' = err
    /\ UNCHANGED <<functions, lists, dicts, heap, output, fed, impl, Front>>

\* function_return that merges the callee's scalars back into the caller's
function_return_merge ==
    /\ AtEnd("call")
    /\ call_stack' = Pop(call_stack)
    /\ variables' = Merge(Top.old_vars, variables)
    /\ Deliver(Pop(kont), Top.node, Top.ret)
    /\ UNCHANGED <<functions, lists, dicts, heap, err, fed, impl, Front>>

\* function_return that treats what the statements of the body define as
\* local: the lists they create and the functions they define or abbreviate
\* end with the call
function_return_localDefs ==
    /\ AtEnd("call")
    /\ call_stack' = Pop(call_stack)
    /\ variables' = Top.old_vars
    /\ LET made(kinds) == {IF Top.body[j].kind = "FunctionAbbrevNode"
                           THEN Top.body[j].name2 ELSE Top.body[j].name :
                               j \in {q \in 1..Len(Top.body) : Top.body[q].kind \in kinds}}
       IN /\ lists' = [x \in DOMAIN lists \ made({"ListNode"}) |-> lists[x]]
          /\ functions' = [x \in DOMAIN functions
                                   \ made({"FunctionDefNode", "FunctionAbbrevNode"}) |-> functions[x]]
    /\ Deliver(Pop(kont), Top.node, Top.ret)
    /\ UNCHANGED <<dicts, heap, err, fed, impl, Front>>

\* function_return that leaves the callee's name on the call stack
function_return_noPop ==
    /\ AtEnd("call")
    /\ call_stack' = call_stack
    /\ variables' = Top.old_vars
    /\ Deliver(Pop(kont), Top.node, Top.ret)
    /\ UNCHANGED <<functions, lists, dicts, heap, err, fed, impl, Front>>

\* visit_FunctionCallNode, the body has run (interpreter.py 131-134)
function_return ==
    /\ AtEnd("call")
    /\ call_stack' = Pop(call_stack)
    /\ variables' = Top.old_vars
    /\ Deliver(Pop(kont), Top.node, Top.ret)
    /\ UNCHANGED <<functions, lists, dicts, heap, err, fed, impl, Front>>

\* The callables among the module globals of interpreter.py that the model
\* keeps: `from builtins import *` (interpreter.py 5) binds the names of
\* Python's own builtins module, print and len among them.
PyCallables == {"print", "len", "hash"}

\* len(*args): the exception raised, "" when none
LenError(a) ==
    IF Len(a) # 1 THEN "TypeError"
    ELSE IF a[1].t \in {"str", "list", "dict"} THEN "" ELSE "TypeError"

LenValue(a) == IF a[1].t = "str" THEN IntV(Len(a[1].s)) ELSE IntV(Len(heap[a[1].n].items))

\* hash(*args): the exception raised, "" when none
HashError(a) ==
    IF Len(a) # 1 THEN "TypeError"
    ELSE IF a[1].t \in {"list", "dict"} THEN "TypeError" ELSE ""

\* The values hash(x) can return.  The hash of a str is salted with a seed
\* the Python process draws when it starts (hash randomization), so it is
\* one of the values of a range, the same value all through one execution;
\* a whole number hashes to itself.
MaxHash == 2
HashValues(a) ==
    IF a[1].t = "str" THEN {IntV(h) : h \in 1..MaxHash} ELSE {IntV(a[1].n)}

\* visit_FunctionCallNode, no user function of that name (interpreter.py
\* 135-142; python_code/interpreter.py 115-121): a callable module global is
\* called with the resolved arguments; otherwise caml returns the name and
\* python_code raises
call_builtin ==
    /\ IsCall /\ Cur.name \notin DOMAIN functions
    /\ LET a == [j \in 1..Len(Cur.args) |-> resolve_value(Cur.args[j])]
       IN CASE Cur.name = "print" ->
                 /\ Len(output) < MaxOut
                 /\ IF Cur.kind = "DisplayNode"
                    THEN Len(output) + 1 < MaxOut /\ output' = output \o <<a, <<Null>>>>
                    ELSE output' = Append(output, a)
                 /\ kont' = Finish(kont, Null)
                 /\ err' = err
            [] Cur.name = "len" ->
                 IF LenError(a) # ""
                 THEN err' = "TypeError" /\ UNCHANGED <<kont, output>>
                 ELSE err' = err /\ Deliver(kont, Cur, LenValue(a))
            [] Cur.name = "hash" ->
                 IF HashError(a) # ""
                 THEN err' = "TypeError" /\ UNCHANGED <<kont, output>>
                 ELSE /\ err' = err
                      /\ a[1].t \in {"str", "int", "bool"}
                      /\ \E h \in HashValues(a) : Deliver(kont, Cur, h)
            [] OTHER ->
                 IF impl = "caml"
                 THEN err' = err /\ Deliver(kont, Cur, IF Cur.name = NoName THEN Null ELSE StrV(Cur.name))
                 ELSE err' = "Exception" /\ UNCHANGED <<kont, output>>
    /\ UNCHANGED <<variables, functions, lists, dicts, heap, call_stack, fed, impl, Front>>

\* ---- conditionals
\* visit_IfNode (interpreter.py 150-153)
visit_IfNode ==
    /\ At("IfNode")
    /\ kont' = IF evaluate_condition(Cur.value)
               THEN Append(kont, [F0 EXCEPT !.k = "block", !.body = Cur.body, !.node = Cur])
               ELSE Finish(kont, Null)
    /\ UNCHANGED <<Env, output, err, fed, impl, Front>>

\* visit_OrIfNode as the else-if of the conditional before it in the same
\* statement list: skipped when that one's condition holds
visit_OrIfNode_chained ==
    /\ At("OrIfNode")
    /\ LET taken == /\ Top.i > 1
                    /\ Top.body[Top.i - 1].kind \in {"IfNode", "OrIfNode"}
                    /\ evaluate_condition(Top.body[Top.i - 1].value)
       IN kont' = IF evaluate_condition(Cur.value) /\ ~taken
                  THEN Append(kont, [F0 EXCEPT !.k = "block", !.body = Cur.body, !.node = Cur])
                  ELSE Finish(kont, Null)
    /\ UNCHANGED <<Env, output, err, fed, impl, Front>>

\* visit_OrIfNode (interpreter.py 155-158)
visit_OrIfNode ==
    /\ At("OrIfNode")
    /\ kont' = IF evaluate_condition(Cur.value)
               THEN Append(kont, [F0 EXCEPT !.k = "block", !.body = Cur.body, !.node = Cur])
               ELSE Finish(kont, Null)
    /\ UNCHANGED <<Env, output, err, fed, impl, Front>>

\* visit_OtherwiseNode (interpreter.py 160-162)
visit_OtherwiseNode ==
    /\ At("OtherwiseNode")
    /\ kont' = Append(kont, [F0 EXCEPT !.k = "block", !.body = Cur.body, !.node = Cur])
    /\ UNCHANGED <<Env, output, err, fed, impl, Front>>

\* the body of an If / OrIf / Otherwise has run: the visit returns None
block_end ==
    /\ AtEnd("block")
    /\ kont' = Finish(Pop(kont), Null)
    /\ UNCHANGED <<Env, output, err, fed, impl, Front>>

\* ---- loops
\* int(v): the exception raised, "" when none.  The strings of the model are
\* words, never numerals.
IntError(v) ==
    IF IsNum(v) THEN "" ELSE IF v.t = "str" THEN "ValueError" ELSE "TypeError"

\* int(v) rounding up to the next integer
IntValue_ceil(v) == -((-v.n) \div v.d)

\* int(v) truncates toward zero
IntValue(v) == IF v.n >= 0 THEN v.n \div v.d ELSE -((-v.n) \div v.d)

\* ---- math functions
\* math.gcd of two ints
math_gcd(a, b) == Gcd(Abs(a), Abs(b))

\* the r >= 0 with r * r = i, for the i that have one
IsSquare(i) == \E r \in 0..Abs(i) : r * r = i
isqrt(i) == CHOOSE r \in 0..Abs(i) : r * r = i

\* The exception visit_MathFuncNode raises on the resolved args, "" when it
\* returns (interpreter.py 324-339): args[0], args[1] of a short list, int()
\* of a word or of None, ** and math.sqrt of a non-number, math.sqrt of a
\* negative number, // by a gcd of zero, randint over an empty range.
MathFuncError(f, args) ==
    IF f = "SQUARE"
    THEN IF Len(args) = 0 THEN "IndexError"
         ELSE IF IsNum(args[1]) THEN "" ELSE "TypeError"
    ELSE IF f = "SQUAREROOT"
    THEN IF Len(args) = 0 THEN "IndexError"
         ELSE IF ~IsNum(args[1]) THEN "TypeError"
         ELSE IF args[1].n < 0 THEN "ValueError" ELSE ""
    ELSE IF f \in {"GCD", "LCM"}
    THEN IF Len(args) = 0 THEN "IndexError"
         ELSE IF IntError(args[1]) # "" THEN IntError(args[1])
         ELSE IF Len(args) = 1 THEN "IndexError"
         ELSE IF IntError(args[2]) # "" THEN IntError(args[2])
         ELSE IF f = "LCM" /\ math_gcd(IntValue(args[1]), IntValue(args[2])) = 0
              THEN "ZeroDivisionError"
              ELSE ""
    ELSE IF f = "RANDOM_INT" /\ Len(args) = 2
    THEN IF IntError(args[1]) # "" THEN IntError(args[1])
         ELSE IF IntError(args[2]) # "" THEN IntError(args[2])
         ELSE IF IntValue(args[1]) > IntValue(args[2]) THEN "ValueError" ELSE ""
    ELSE ""

\* The values visit_MathFuncNode can return when it raises nothing: one
\* value, except for RANDOM_INT, whose value random.randint picks.
MathFuncValues(f, args) ==
    IF f = "SQUARE" THEN {PyPow(args[1], IntV(2))}
    ELSE IF f = "SQUAREROOT" THEN {FltV(isqrt(args[1].n), 1)}
    ELSE IF f = "GCD" THEN {IntV(math_gcd(IntValue(args[1]), IntValue(args[2])))}
    ELSE IF f = "LCM"
    THEN LET a == IntValue(args[1])
             b == IntValue(args[2])
         IN {IntV(Abs(a * b) \div math_gcd(a, b))}
    ELSE IF f = "RANDOM_INT"
    THEN IF Len(args) = 2
         THEN {IntV(r) : r \in IntValue(args[1])..IntValue(args[2])}
         ELSE {IntV(r) : r \in 1..10}
    ELSE {Null}

\* the args of the node at the cursor, resolved
MathArgs == [i \in 1..Len(Cur.args) |-> resolve_value(Cur.args[i])]

\* visit_MathFuncNode (interpreter.py 324-339).  The model keeps rationals
\* only: a square root is taken of a whole perfect square.
visit_MathFuncNode ==
    /\ At("MathFuncNode")
    /\ LET e == MathFuncError(Cur.name, MathArgs)
       IN /\ (Cur.name = "SQUAREROOT" /\ e = "") =>
                 (MathArgs[1].d = 1 /\ IsSquare(MathArgs[1].n))
          /\ IF e = ""
             THEN /\ \E r \in MathFuncValues(Cur.name, MathArgs) : kont' = Finish(kont, r)
                  /\ err' = err
             ELSE /\ err' = e
                  /\ kont' = kont
    /\ UNCHANGED <<variables, functions, lists, dicts, heap, call_stack, output, fed, impl, Front>>

\* visit_RepeatNode, entry (interpreter.py 165-167)
visit_RepeatNode ==
    /\ At("RepeatNode")
    /\ LET v == resolve_value(Cur.value)
       IN IF IntError(v) # ""
          THEN err' = IntError(v) /\ kont' = kont
          ELSE /\ err' = err
               /\ kont' = IF IntValue(v) <= 0
                          THEN Finish(kont, Null)
                          ELSE Append(kont, [F0 EXCEPT !.k = "repeat", !.body = Cur.body,
                                                       !.n = IntValue(v) - 1, !.node = Cur])
    /\ UNCHANGED <<Env, output, fed, impl, Front>>

\* visit_RepeatNode, the body has run once more: next value of range(times)
repeat_next ==
    /\ AtEnd("repeat")
    /\ kont' = IF Top.n > 0
               THEN [kont EXCEPT ![Len(kont)] = [Top EXCEPT !.n = Top.n - 1, !.i = 1]]
               ELSE Finish(Pop(kont), Null)
    /\ UNCHANGED <<Env, output, err, fed, impl, Front>>

\* visit_DoUntilNode as a post-test loop: the body runs before the first test
visit_DoUntilNode_postTest ==
    /\ At("DoUntilNode")
    /\ kont' = Append(kont, [F0 EXCEPT !.k = "until", !.body = Cur.body, !.node = Cur])
    /\ UNCHANGED <<Env, output, err, fed, impl, Front>>

\* visit_DoUntilNode, first test of the while (interpreter.py 171-172)
visit_DoUntilNode ==
    /\ At("DoUntilNode")
    /\ kont' = IF evaluate_condition(Cur.value)
               THEN Finish(kont, Null)
               ELSE Append(kont, [F0 EXCEPT !.k = "until", !.body = Cur.body, !.node = Cur])
    /\ UNCHANGED <<Env, output, err, fed, impl, Front>>

\* visit_DoUntilNode, the body has run: the while tests again
until_next ==
    /\ AtEnd("until")
    /\ kont' = IF evaluate_condition(Top.node.value)
               THEN Finish(Pop(kont), Null)
               ELSE [kont EXCEPT ![Len(kont)] = [Top EXCEPT !.i = 1]]
    /\ UNCHANGED <<Env, output, err, fed, impl, Front>>

\* `x or []` of Python: a falsy x gives a fresh empty list, written Null here
\* (it is iterated zero times and never stored)
OrEmpty(v) == IF Truthy(v) THEN v ELSE Null

\* the iterable of visit_ForEachNode (interpreter.py 177-181;
\* python_code/interpreter.py 177)
Iterable(name) ==
    IF impl = "caml"
    THEN IF name \in DOMAIN lists THEN lists[name] ELSE OrEmpty(get_var(name))
    ELSE IF name \in DOMAIN lists /\ Truthy(lists[name]) THEN lists[name]
         ELSE OrEmpty(get_var(name))

\* visit_ForEachNode, entry (interpreter.py 176-185)
visit_ForEachNode ==
    /\ At("ForEachNode")
    /\ LET it == Iterable(Cur.name2)
       IN IF it.t \notin {"list", "null"}
          THEN err' = "TypeError" /\ UNCHANGED <<variables, kont>>
          ELSE /\ err' = err
               /\ IF it.t = "null" \/ Len(heap[it.n].items) = 0
                  THEN kont' = Finish(kont, Null) /\ variables' = variables
                  ELSE /\ variables' = set_var(Cur.name, heap[it.n].items[1])
                       /\ kont' = Append(kont, [F0 EXCEPT !.k = "foreach", !.body = Cur.body,
                                                            !.obj = it.n, !.n = 1, !.node = Cur])
    /\ UNCHANGED <<functions, lists, dicts, heap, call_stack, output, fed, impl, Front>>

\* visit_ForEachNode, the body has run: the list iterator looks at the list
\* object as it is now
foreach_next ==
    /\ AtEnd("foreach")
    /\ IF Top.n < Len(heap[Top.obj].items)
       THEN /\ variables' = set_var(Top.node.name, heap[Top.obj].items[Top.n + 1])
            /\ kont' = [kont EXCEPT ![Len(kont)] = [Top EXCEPT !.n = Top.n + 1, !.i = 1]]
       ELSE /\ variables' = variables
            /\ kont' = Finish(Pop(kont), Null)
    /\ UNCHANGED <<functions, lists, dicts, heap, call_stack, output, err, fed, impl, Front>>

\* ---- lists and dicts
ListObj(items) == [kind |-> "list", items |-> items, keys |-> <<>>]
DictObj(keys, items) == [kind |-> "dict", items |-> items, keys |-> keys]

\* visit_ListNode (interpreter.py 190-192)
visit_ListNode ==
    /\ At("ListNode")
    /\ Len(heap) < MaxHeap
    /\ heap' = Append(heap, ListObj([j \in 1..Len(Cur.args) |-> resolve_value(Cur.args[j])]))
    /\ lists' = Put(lists, Cur.name, ListRef(Len(heap) + 1))
    /\ kont' = Finish(kont, Null)
    /\ UNCHANGED <<variables, functions, dicts, call_stack, output, err, fed, impl, Front>>

\* visit_ListAddNode (interpreter.py 194-198)
visit_ListAddNode ==
    /\ At("ListAddNode")
    /\ LET val == resolve_value(Cur.value)
       IN IF Cur.name \in DOMAIN lists
          THEN /\ Len(heap[lists[Cur.name].n].items) < MaxItems
               /\ heap' = [heap EXCEPT ![lists[Cur.name].n].items = Append(@, val)]
               /\ lists' = lists
          ELSE /\ Len(heap) < MaxHeap
               /\ heap' = Append(heap, ListObj(<<val>>))
               /\ lists' = Put(lists, Cur.name, ListRef(Len(heap) + 1))
    /\ kont' = Finish(kont, Null)
    /\ UNCHANGED <<variables, functions, dicts, call_stack, output, err, fed, impl, Front>>

\* Keys and values of the dict a DictionaryNode builds: node.elements is a
\* Python dict, so a key written twice keeps its last value.
visit_DictionaryNode ==
    /\ At("DictionaryNode")
    /\ Len(heap) < MaxHeap
    /\ heap' = Append(heap, DictObj(Cur.params, [j \in 1..Len(Cur.args) |-> resolve_value(Cur.args[j])]))
    /\ dicts' = Put(dicts, Cur.name, DictRef(Len(heap) + 1))
    /\ kont' = Finish(kont, Null)
    /\ UNCHANGED <<variables, functions, lists, call_stack, output, err, fed, impl, Front>>

\* ---- execute
\* execute(ast) has visited every node of ast (interpreter.py 442-444)
execute_end ==
    /\ AtEnd("top")
    /\ kont' = <<>>
    /\ UNCHANGED <<Env, output, err, fed, impl, Front>>

\* Interpreter.visit: the handler of the node's class (interpreter.py 25-29)
visit ==
    \/ visit_DisplayNode
    \/ visit_AssignNode
    \/ visit_ArithNode
    \/ visit_BlockVarNode
    \/ visit_FunctionDefNode
    \/ visit_FunctionAbbrevNode
    \/ call_user_function
    \/ call_builtin
    \/ function_return
    \/ visit_IfNode
    \/ visit_OrIfNode
    \/ visit_OtherwiseNode
    \/ block_end
    \/ visit_RepeatNode
    \/ repeat_next
    \/ visit_DoUntilNode
    \/ until_next
    \/ visit_ForEachNode
    \/ foreach_next
    \/ visit_ListNode
    \/ visit_ListAddNode
    \/ visit_DictionaryNode
    \/ execute_end

\* ---------------------------------------------------------------- programs
Init ==
    /\ variables = EmptyMap
    /\ functions = EmptyMap
    /\ lists = EmptyMap
    /\ dicts = EmptyMap
    /\ heap = <<>>
    /\ call_stack = <<>>
    /\ output = <<>>
    /\ kont = <<>>
    /\ err = ""
    /\ fed = 0
    /\ impl \in {"caml", "py"}
    /\ raw = "" /\ lines = <<>> /\ token_lines = <<>> /\ pos = 0 /\ ast = <<>>
    /\ pc = "interpreter"

\* a DisplayNode around a FunctionCallNode somewhere in s: only the caml-code
\* parser builds one (parser.py 185-188)
RECURSIVE HasDisplayCall(_)
HasDisplayCall(s) == s.call \/ \E j \in 1..Len(s.body) : HasDisplayCall(s.body[j])

\* execute(ast) reaches the next node of ast: any statement of the pool P
Feed(P) ==
    /\ kont = <<>> /\ err = "" /\ fed < MaxTop
    /\ \E s \in P :
         /\ impl = "py" => ~HasDisplayCall(s)
         /\ kont' = <<[F0 EXCEPT !.body = <<s>>]>>
    /\ fed' = fed + 1
    /\ UNCHANGED <<Env, output, err, impl, Front>>

\* Programs about functions: definitions that rebind, add and remove scalars,
\* nested and recursive calls, calls of names that are no user function.
PoolCall == {
    AssignNode("x", IntV(1)),
    AssignNode("p", IntV(3)),
    ListNode("p", <<StrV("p"), IntV(1)>>),
    DisplayNode(StrV("x")),
    FunctionDefNode("f", <<"p">>,
        <<AssignNode("p", IntV(9)), AssignNode("z", IntV(1)), BlockVarNode("x")>>),
    FunctionDefNode("f", <<"p", "q">>,
        <<DisplayNode(StrV("p")), AssignNode("y", StrV("q"))>>),
    FunctionDefNode("f", <<"p", "p">>, <<DisplayCallNode("len", <<StrV("p")>>)>>),
    FunctionDefNode("g", <<>>,
        <<FunctionCallNode("f", <<StrV("x"), IntV(7)>>), IncreaseNode("x", IntV(1))>>),
    FunctionDefNode("r", <<"p">>,
        <<DecreaseNode("p", IntV(1)), IfNode(StrV("p"), <<FunctionCallNode("r", <<StrV("p")>>)>>)>>),
    FunctionAbbrevNode("f", "g"),
    FunctionCallNode("f", <<IntV(5)>>),
    FunctionCallNode("f", <<IntV(5), IntV(7)>>),
    DisplayCallNode("f", <<StrV("p"), StrV("x")>>),
    FunctionCallNode("g", <<>>),
    FunctionCallNode("r", <<IntV(2)>>),
    FunctionCallNode("r", <<IntV(4)>>),
    FunctionCallNode("print", <<StrV("x")>>),
    DisplayCallNode("len", <<StrV("x")>>),
    FunctionCallNode("nosuch", <<IntV(1)>>),
    DisplayCallNode("add", <<IntV(5), IntV(7)>>)
}

NextCall ==
    \/ Feed(PoolCall)
    \/ visit_DisplayNode
    \/ visit_AssignNode
    \/ visit_ArithNode
    \/ visit_BlockVarNode
    \/ visit_ListNode
    \/ visit_FunctionDefNode
    \/ visit_FunctionAbbrevNode
    \/ call_user_function
    \/ call_builtin
    \/ function_return
    \/ visit_IfNode
    \/ block_end
    \/ execute_end

SpecCall == Init /\ [][NextCall]_vars

\* Programs about conditions and values: scalars holding zero, strings and
\* list objects, names bound in several namespaces, conditionals in sequence.
ShowA == <<DisplayNode(StrV("a"))>>
ShowB == <<DisplayNode(StrV("b"))>>

PoolCond == {
    AssignNode("x", IntV(0)),
    AssignNode("x", IntV(6)),
    AssignNode("x", StrV("")),
    AssignNode("L", IntV(0)),
    AssignNode("d", StrV("hi")),
    AssignNode("y", StrV("L")),
    ListNode("L", <<StrV("L"), IntV(1)>>),
    DictionaryNode("d", <<>>, <<>>),
    DictionaryNode("d", <<"d", "k">>, <<StrV("k"), IntV(1)>>),
    DictionaryNode("L", <<>>, <<>>),
    DivideNode("x", IntV(0)),
    DivideNode("x", IntV(4)),
    DivideNode("x", StrV("L")),
    DivideNode("y", IntV(0)),
    MultiplyNode("x", StrV("hi")),
    MultiplyNode("x", StrV("y")),
    DisplayNode(StrV("x")),
    DisplayNode(StrV("L")),
    DisplayNode(StrV("d")),
    DisplayNode(IntV(5)),
    IfNode(StrV("x"), ShowA),
    IfNode(StrV("L"), ShowA),
    IfNode(StrV("true"), ShowA),
    IfNode(Null, ShowA),
    OrIfNode(StrV("true"), ShowB),
    OrIfNode(StrV("d"), ShowB),
    OtherwiseNode(<<IfNode(StrV("y"), ShowA), OrIfNode(StrV("x"), ShowB),
                    OtherwiseNode(<<DisplayNode(StrV("c"))>>)>>),
    DoUntilNode(StrV("x"), <<AssignNode("x", IntV(1))>>),
    DoUntilNode(StrV("d"), <<DictionaryNode("d", <<"d">>, <<IntV(1)>>)>>)
}

NextCond ==
    \/ Feed(PoolCond)
    \/ visit_DisplayNode
    \/ visit_AssignNode
    \/ visit_ArithNode
    \/ visit_MultiplyNode_repeat
    \/ visit_ListNode
    \/ visit_DictionaryNode
    \/ visit_IfNode
    \/ visit_OrIfNode
    \/ visit_OtherwiseNode
    \/ block_end
    \/ visit_DoUntilNode
    \/ until_next
    \/ execute_end

SpecCond == Init /\ [][NextCond]_vars

\* ---------------------------------------------------------------- run_file
\* run_file (run_caml.py 7-15): Lexer(code), tokenize(), Parser(...).parse(),
\* Interpreter().execute(ast), over the caml-code copy.

\* Lexer(code): the constructor runs _preprocess (lexer.py 18-21, 117)
Lexer_init ==
    /\ pc = "lexer" /\ err = ""
    /\ LET r == preprocess(raw)
       IN IF r.ok THEN lines' = r.lines /\ pc' = "tokenize" /\ err' = err
          ELSE err' = "IndexError" /\ UNCHANGED <<lines, pc>>
    /\ UNCHANGED <<Env, output, kont, fed, impl, raw, token_lines, pos, ast>>

\* lexer.tokenize() and Parser(token_lines) (lexer.py 159-282, parser.py 19-22)
Lexer_tokenize ==
    /\ pc = "tokenize"
    /\ token_lines' = tokenize(lines)
    /\ pos' = 0
    /\ pc' = "parser"
    /\ UNCHANGED <<Env, output, kont, err, fed, impl, raw, lines, ast>>

\* one turn of the loop of Parser.parse (parser.py 57-64)
Parser_parse ==
    /\ pc = "parser" /\ pos < Len(token_lines)
    /\ LET r == parse_statement(token_lines, pos)
       IN ast' = ast \o r.nodes /\ pos' = r.pos
    /\ UNCHANGED <<Env, output, kont, err, fed, impl, raw, lines, token_lines, pc>>

\* parse() returns and Interpreter().execute(ast) starts (parser.py 65,
\* run_caml.py 14-15, interpreter.py 442-443)
Interpreter_execute ==
    /\ pc = "parser" /\ pos >= Len(token_lines)
    /\ kont' = <<[F0 EXCEPT !.body = ast]>>
    /\ pc' = "interpreter"
    /\ UNCHANGED <<Env, output, err, fed, impl, raw, lines, token_lines, pos, ast>>

\* the run of the source file is over without an exception
Done == pc = "interpreter" /\ kont = <<>> /\ err = ""

MaxLines == 2    \* lines of a source drawn freely from LinePool

\* the text of a source file holding the lines ls
Program(ls) == Join(ls, Len(ls), NL)

LinePool == {
    "Assign 10 to x",
    "Assign 3 to b",
    "Divide x by 0",
    "Display x",
    "Create list mylist containing contents 1, 2, 3",
    "Create list L containing contents \"hi\", 2.5",
    "For each item in mylist do:",
    "    Display item",
    "If true",
    "    Display \"a\"",
    "Or if true",
    "Create dictionary d",
    "If d",
    "Define function \"add\" which takes (a, b) and does:",
    "    return a + b",
    "Display (Call function \"add\" with arguments (5, 7))",
    "Display add(5, 7)",
    "Display b $ the caller's b"
}

ScenarioB == <<"Create list mylist containing contents 1, 2, 3",
               "For each item in mylist do:",
               "    Display item">>
ScenarioB2 == <<"Create list L containing contents \"hi\", 2.5",
                "For each item in L do:",
                "    Display item">>
ScenarioC == <<"Assign 10 to x", "Divide x by 0", "Display x">>
ScenarioD == <<"Define function \"add\" which takes (a, b) and does:",
               "    return a + b",
               "Display (Call function \"add\" with arguments (5, 7))">>
ScenarioD2 == <<"Assign 3 to b",
                "Define function \"add\" which takes (a, b) and does:",
                "    return a + b",
                "Display add(5, 7)",
                "Display b">>
ScenarioE == <<"If true", "    Display \"a\"", "Or if true", "    Display \"b\"">>

\* Scenario A for the literals v and n as they are written in the source
ScenarioA(v, n) == <<"Assign " \o v \o " to x", "Increase x by " \o n, "Display x">>
\* literals written for v and n, with the sum of the numbers they denote
SumCases == {
    [v |-> "5", n |-> "10", sum |-> IntV(15)],
    [v |-> "2.5", n |-> "10", sum |-> FltV(25, 2)],
    [v |-> "0", n |-> "0.25", sum |-> FltV(1, 4)],
    [v |-> "-5", n |-> "10", sum |-> IntV(5)],
    [v |-> "5", n |-> "-10", sum |-> IntV(-5)]
}

\* a program that prints the hash of a text: one call of hash in an execution
ScenarioHash == <<"Display hash(\"a\")", "Display \"done\"">>

\* conditionals on the keywords false and null
FalseWords == {"false", "null", "False"}
GuardedBy(w) == <<"If " \o w, "    Display \"if ran\"", "Or if " \o w,
                  "    Display \"or-if ran\"", "Display \"end\"">>

\* numerals as they are written, with the number each denotes
NumeralCases == {
    [text |-> "5", value |-> IntV(5)],
    [text |-> "-5", value |-> IntV(-5)],
    [text |-> "2.5", value |-> FltV(5, 2)],
    [text |-> "-2.5", value |-> FltV(-5, 2)],
    [text |-> "10.0", value |-> FltV(10, 1)]
}
AssignNumeral(text) == <<"Assign " \o text \o " to x", "Display x">>

Scenarios == {ScenarioB, ScenarioB2, ScenarioC, ScenarioD, ScenarioD2, ScenarioE, ScenarioHash} \cup
             {ScenarioA(c.v, c.n) : c \in SumCases} \cup
             {AssignNumeral(c.text) : c \in NumeralCases} \cup
             {GuardedBy(w) : w \in FalseWords}

\* the sources run: the scenarios and every source of up to MaxLines pool lines
Sources ==
    {Program(ls) : ls \in Scenarios} \cup
    UNION {{Program(ls) : ls \in [1..n -> LinePool]} : n \in 1..MaxLines}

InitFile ==
    /\ variables = EmptyMap
    /\ functions = EmptyMap
    /\ lists = EmptyMap
    /\ dicts = EmptyMap
    /\ heap = <<>>
    /\ call_stack = <<>>
    /\ output = <<>>
    /\ kont = <<>>
    /\ err = ""
    /\ fed = 0
    /\ impl = "caml"
    /\ raw \in Sources
    /\ lines = <<>> /\ token_lines = <<>> /\ pos = 0 /\ ast = <<>>
    /\ pc = "lexer"

NextFile ==
    \/ Lexer_init
    \/ Lexer_tokenize
    \/ Parser_parse
    \/ Interpreter_execute
    \/ visit_DisplayNode
    \/ visit_AssignNode
    \/ visit_ArithNode
    \/ visit_ListNode
    \/ visit_DictionaryNode
    \/ visit_FunctionDefNode
    \/ call_user_function
    \/ call_builtin
    \/ function_return
    \/ visit_IfNode
    \/ visit_OrIfNode
    \/ block_end
    \/ visit_ForEachNode
    \/ foreach_next
    \/ execute_end

SpecFile == InitFile /\ [][NextFile]_vars

\* ---------------------------------------------------------------- front end
\* Lexer and parser alone, over texts that are well formed and texts that are
\* not: unterminated strings, string placeholders written in the source,
\* comment markers, words apart by more than one blank, blocks nested by
\* indentation and dedented by any amount.
MaxFront == 2    \* lines of a text drawn freely from FrontPool

FrontPool == {
    "Display __STR_0__",
    "Display \"a\" __STR_0__",
    "Display \"unterminated",
    "Display \"es\\\"c\" x $ note",
    "$$$",
    "set variable x to 5",
    "set   variable x to 5",
    "Set x to 5",
    "create a new button b",
    "for  each item in L do:",
    "do this until x",
    "    Repeat this 2 times",
    "        Display x",
    "  Otherwise:",
    "If x is greater than 3.50 then:",
    "Define function f which takes (p) and does:",
    "the a an ...",
    "x 1 )(",
    "write find in the  call"
}

NestedA == <<"If x", "    Repeat this 2 times", "        Display 1", "    Display 2", "Display 3">>
NestedB == <<"Define function f which takes (p) and does:", "        If p", "            Display p",
             "    Display 2", "  Otherwise", "      the", "      Display 4">>
NestedC == <<"  Display 1", "If x", "  Or if y", "   for each item in L do:", "    do this until x",
             "     Display item", "Otherwise">>
WordsA == <<"set variable x to 5", "do this until x", "create a new button b",
            "is equal to or if 12 is less than the exports are", "get data type of call function add">>

\* lines holding the keywords of two statement kinds, the later kind's first
OrderA == <<"interact display", "window interact", "button window b", "create list q button",
            "add 1 to list m create list", "assign 1 to x add list", "define function f assign",
            "x y z">>
OrderB == <<"call define function f", "abbreviate call f", "if abbreviate f", "or if x if",
            "otherwise or if x", "repeat this otherwise", "do this until repeat this 2",
            "to by in", "block">>
OrderC == <<"for each do this until x", "square of for each", "write square of 3",
            "get length of write", "import get length of x", "exports import m",
            "containing exports", "( ) ,">>

\* a loop whose variable is spelled like a keyword
OrderD == <<"For each change in changes do:", "    Display change", "Display 3">>

\* comments after strings, a `$` inside a string, strings and an opening quote
\* inside a comment
CommentA == <<"Display \"a $ b\" $ c", "Display \"x\" $ \"y\"", "Display 3">>
CommentB == <<"Display 1 $ say \"hi", "Display \"a\"", "Display 2">>

\* block comments: marker lines with text after them and indented, a `$`
\* line inside; a block comment that holds an opening quote
BlockA == <<"Display 1", "$$$ notes", "anything $ here", "  $$$", "Display 2", "$$$", "Display 3">>
BlockB == <<"$$$", "say \"hi", "$$$", "Display \"a\"", "Display 2">>

FrontTexts == {NestedA, NestedB, NestedC, WordsA, OrderA, OrderB, OrderC, OrderD,
               CommentA, CommentB, BlockA, BlockB}

FrontSources ==
    {Program(ls) : ls \in FrontTexts} \cup
    UNION {{Program(ls) : ls \in [1..n -> FrontPool]} : n \in 1..MaxFront}

InitFront ==
    /\ variables = EmptyMap
    /\ functions = EmptyMap
    /\ lists = EmptyMap
    /\ dicts = EmptyMap
    /\ heap = <<>>
    /\ call_stack = <<>>
    /\ output = <<>>
    /\ kont = <<>>
    /\ err = ""
    /\ fed = 0
    /\ impl = "caml"
    /\ raw \in FrontSources
    /\ lines = <<>> /\ token_lines = <<>> /\ pos = 0 /\ ast = <<>>
    /\ pc = "lexer"

NextFront ==
    \/ Lexer_init
    \/ Lexer_tokenize
    \/ Parser_parse
    \/ Interpreter_execute

SpecFront == InitFront /\ [][NextFront]_vars

\* Programs about loops and arithmetic updates: counts that are ints, floats,
\* negative, strings or unbound; bodies that change the count or the
\* condition; iterables that are lists, scalars, dicts or unbound; updates of
\* numeric, string and unbound targets.
PoolLoop == {
    AssignNode("n", IntV(2)),
    AssignNode("n", IntV(0)),
    AssignNode("n", FltV(5, 2)),
    AssignNode("n", FltV(-3, 2)),
    AssignNode("c", IntV(0)),
    AssignNode("s", StrV("hi")),
    AssignNode("v", StrV("L")),
    ListNode("L", <<StrV("L"), IntV(1)>>),
    DictionaryNode("d", <<"k">>, <<IntV(1)>>),
    RepeatNode(StrV("n"), <<IncreaseNode("n", IntV(1)), DisplayNode(StrV("n"))>>),
    RepeatNode(IntV(2), <<DecreaseNode("n", IntV(1))>>),
    RepeatNode(StrV("s"), ShowA),
    RepeatNode(Null, ShowA),
    DoUntilNode(StrV("c"), <<AssignNode("c", StrV("n")), IncreaseNode("n", IntV(1))>>),
    DoUntilNode(StrV("s"), ShowB),
    ForEachNode("item", "L", <<DisplayNode(StrV("item"))>>),
    ForEachNode("item", "v", <<ListAddNode("M", StrV("item"))>>),
    ForEachNode("item", "n", ShowA),
    ForEachNode("item", "s", ShowA),
    ForEachNode("item", "d", ShowA),
    IncreaseNode("s", IntV(1)),
    DecreaseNode("u", IntV(1)),
    MultiplyNode("L", IntV(2)),
    DivideNode("s", IntV(0)),
    DivideNode("n", IntV(2)),
    ExponentiateNode("s", IntV(2)),
    ExponentiateNode("n", IntV(2))
}

NextLoop ==
    \/ Feed(PoolLoop)
    \/ visit_DisplayNode
    \/ visit_AssignNode
    \/ visit_ArithNode
    \/ visit_ListNode
    \/ visit_ListAddNode
    \/ visit_DictionaryNode
    \/ visit_RepeatNode
    \/ repeat_next
    \/ visit_DoUntilNode
    \/ until_next
    \/ visit_ForEachNode
    \/ foreach_next
    \/ execute_end

SpecLoop == Init /\ [][NextLoop]_vars

\* ---- math functions: integers and a few other values bound to a and b,
\* the primitives on the names and on literals
MaxArg == 3

PoolMath ==
    {AssignNode("a", IntV(i)) : i \in -MaxArg..MaxArg} \cup
    {AssignNode("b", IntV(i)) : i \in -MaxArg..MaxArg} \cup
    {
    AssignNode("a", FltV(5, 2)),
    AssignNode("b", FltV(-1, 2)),
    AssignNode("b", StrV("hi")),
    MathFuncNode("GCD", <<StrV("a"), StrV("b")>>),
    MathFuncNode("LCM", <<StrV("a"), StrV("b")>>),
    MathFuncNode("SQUARE", <<StrV("a")>>),
    MathFuncNode("SQUAREROOT", <<StrV("a")>>),
    MathFuncNode("RANDOM_INT", <<StrV("a"), StrV("b")>>),
    MathFuncNode("GCD", <<IntV(12), IntV(18)>>),
    MathFuncNode("LCM", <<IntV(4), IntV(6)>>),
    MathFuncNode("SQUARE", <<IntV(7)>>),
    MathFuncNode("SQUAREROOT", <<IntV(4)>>),
    MathFuncNode("RANDOM_INT", <<>>),
    MathFuncNode("GCD", <<IntV(4)>>),
    MathFuncNode(NoName, <<IntV(1)>>),
    DisplayNode(StrV("a"))
    }

NextMath ==
    \/ Feed(PoolMath)
    \/ visit_AssignNode
    \/ visit_MathFuncNode
    \/ visit_DisplayNode
    \/ execute_end

SpecMath == Init /\ [][NextMath]_vars

\* ---- loops over lists: bodies that display, that add to another list and
\* that add to the list being iterated.  L is created with the elements of
\* EachList and changes only inside a loop over L; M changes only inside a
\* loop over L.
EachList == <<IntV(1), IntV(2)>>

PoolEach == {
    ListNode("L", EachList),
    AssignNode("x", IntV(0)),
    ForEachNode("item", "L", <<DisplayNode(StrV("item"))>>),
    ForEachNode("item", "L", <<ListAddNode("M", StrV("item")), IncreaseNode("x", IntV(1))>>),
    ForEachNode("item", "L", <<ListAddNode("L", StrV("item"))>>),
    ForEachNode("item", "M", <<DisplayNode(StrV("item")), IncreaseNode("x", StrV("item"))>>)
}

NextEach ==
    \/ Feed(PoolEach)
    \/ visit_DisplayNode
    \/ visit_AssignNode
    \/ visit_ArithNode
    \/ visit_ListNode
    \/ visit_ListAddNode
    \/ visit_ForEachNode
    \/ foreach_next
    \/ execute_end

SpecEach == Init /\ [][NextEach]_vars

\* ---- function bodies that change every namespace: f binds the scalar z,
\* creates the list B and the dictionary e, adds to the caller's list A,
\* defines h and abbreviates itself as k; h rebinds the caller's x.
BodyF == <<AssignNode("z", StrV("p")),
           ListNode("B", <<StrV("p")>>),
           ListAddNode("A", StrV("z")),
           DictionaryNode("e", <<"k">>, <<StrV("z")>>),
           FunctionDefNode("h", <<>>, <<AssignNode("x", IntV(5)), ListAddNode("C", StrV("x"))>>),
           FunctionAbbrevNode("f", "k")>>

PoolFrame == {
    AssignNode("x", IntV(1)),
    ListNode("A", <<IntV(1)>>),
    FunctionDefNode("f", <<"p">>, BodyF),
    FunctionDefNode("g", <<>>, <<FunctionCallNode("f", <<IntV(2)>>), DisplayNode(StrV("z"))>>),
    FunctionCallNode("f", <<IntV(5)>>),
    FunctionCallNode("g", <<>>),
    FunctionCallNode("h", <<>>),
    DisplayCallNode("k", <<IntV(7)>>),
    DisplayNode(StrV("x"))
}

NextFrame ==
    \/ Feed(PoolFrame)
    \/ visit_DisplayNode
    \/ visit_AssignNode
    \/ visit_ListNode
    \/ visit_ListAddNode
    \/ visit_DictionaryNode
    \/ visit_FunctionDefNode
    \/ visit_FunctionAbbrevNode
    \/ call_user_function
    \/ function_return
    \/ execute_end

SpecFrame == Init /\ [][NextFrame]_vars

\* ---------------------------------------------------------------- claims
Last(q) == q[Len(q)]

\* C1: after a user-function call returns, nested and recursive calls
\* included, the caller's scalar namespace is the one it had immediately
\* before the call.  The namespace saved when the body starts is the caller's,
\* no step changes a saved namespace while its call runs, and the return
\* step puts exactly the saved namespace back.
C1_CallerScalarsRestored ==
    [][ /\ (IsCall /\ Len(kont') = Len(kont) + 1)
            => Last(kont').old_vars = variables
        /\ \A j \in 1..Len(kont) :
             (j <= Len(kont') /\ kont[j].k = "call" /\ ~(j = Len(kont) /\ AtEnd("call")))
                => (kont'[j].k = "call" /\ kont'[j].old_vars = kont[j].old_vars)
        /\ AtEnd("call") => variables' = Top.old_vars
      ]_vars

\* C1 witness: the recursive r has returned into the body of its caller r,
\* whose p is 1 again although the inner call counted its own p down to 0.
C1_Witness_RecursiveReturn ==
    /\ call_stack = <<"r">>
    /\ Top.k = "call" /\ Top.i = 3
    /\ "p" \in DOMAIN variables /\ variables["p"] = IntV(1)

RECURSIVE LastNonNull(_)
LastNonNull(q) ==
    IF q = <<>> THEN Null
    ELSE IF Last(q) # Null THEN Last(q) ELSE LastNonNull(Pop(q))

\* C8: a user-function call evaluates to the result of the last body
\* statement that yielded a non-null result, and to null when none did:
\* what a Display around the call prints, and what the calling function body
\* receives as its statement's result, is that value.
C8_ReturnsLastNonNull ==
    [][ AtEnd("call") =>
          LET r == LastNonNull(Top.results)
          IN /\ Len(Top.results) = Len(Top.body)
             /\ Top.node.kind = "DisplayNode" => output' = Append(output, <<r>>)
             /\ (Len(kont) >= 2 /\ kont[Len(kont) - 1].k = "call")
                   => Last(kont'[Len(kont) - 1].results) = r
      ]_vars

\* C8 witness: Display of a call of f(p, q) has printed twice, the line of the
\* body's Display and then the call's value: the value of that first
\* statement, which the null-yielding Assign after it did not overwrite.
C8_Witness_EarlierResultKept ==
    /\ kont # <<>> /\ Top.k = "top" /\ Top.i = 2
    /\ Top.body[1].kind = "DisplayNode" /\ Top.body[1].call /\ Top.body[1].name = "f"
    /\ Len(output) = 2 /\ output[2] = output[1] /\ output[2] # <<Null>>

\* the call whose body starts now: nothing of the body has run
AtEntry == err = "" /\ kont # <<>> /\ Top.k = "call" /\ Top.i = 1 /\ Top.results = <<>>

\* the value argument j of the running call had in the caller's environment
ArgValue(j) == resolve_in(Top.node.args[j], lists, dicts, Top.old_vars)

\* C9 as claimed: when the body of a user function starts, a reference to any
\* declared parameter resolves to the argument at its position.
C9_ParamResolvesToArg ==
    AtEntry =>
      LET params == functions[Top.node.name].params
      IN \A j \in 1..Min(Len(params), Len(Top.node.args)) :
           resolve_value(StrV(params[j])) = ArgValue(j)

\* C9 amended: when the body of a user function starts, a reference to a
\* declared parameter that is bound neither as a list nor as a dict resolves
\* to the argument at its position (at its last position, when the name is
\* declared more than once), evaluated in the caller's environment, also
\* when a scalar of that spelling is bound outside the function.
C9_ParamResolvesToArg_Amended ==
    AtEntry =>
      LET params == functions[Top.node.name].params
          m == Min(Len(params), Len(Top.node.args))
      IN \A j \in 1..m :
           (/\ params[j] \notin (DOMAIN lists) \cup (DOMAIN dicts)
            /\ \A q \in (j + 1)..m : params[q] # params[j])
              => resolve_value(StrV(params[j])) = ArgValue(j)

\* C9 witness: f(p, ...) starts with argument 5 while the caller has p = 3.
C9_Witness_ShadowsOuterScalar ==
    /\ AtEntry
    /\ functions[Top.node.name].params # <<>> /\ Top.node.args # <<>>
    /\ functions[Top.node.name].params[1] = "p"
    /\ "p" \in DOMAIN Top.old_vars /\ Top.old_vars["p"] = IntV(3)
    /\ Top.node.args[1] = IntV(5)
    /\ resolve_value(StrV("p")) = IntV(5)

\* The primitives of builtins.py (python_code/builtins.py 4-61).
BuiltinTable == {"add", "subtract", "multiply", "divide", "exponentiate", "square_of",
                 "squareroot_of", "gcd", "lcm", "generate_random_int", "concat",
                 "get_length", "get_case", "get_type"}

\* C10: a called name that is no user function and no primitive of the
\* builtin table evaluates to the name itself: no error, no output but the
\* Display's own line, no other change; and the primitive add is invoked.
C10_UnknownNameIsLiteral ==
    [][ (IsCall /\ Cur.name \notin DOMAIN functions) =>
          IF Cur.name \in BuiltinTable
          THEN (Cur.name = "add" /\ Cur.args = <<IntV(5), IntV(7)>> /\ Cur.kind = "DisplayNode")
                  => output' = Append(output, <<IntV(12)>>)
          ELSE /\ err' = ""
               /\ kont' = Finish(kont, StrV(Cur.name))
               /\ output' = IF Cur.kind = "DisplayNode"
                            THEN Append(output, <<StrV(Cur.name)>>) ELSE output
      ]_vars

\* the operand of the Divide about to run resolves to zero
DivideByZero ==
    /\ At("DivideNode")
    /\ IsNum(resolve_value(Cur.value)) /\ resolve_value(Cur.value).n = 0

\* the run stops with ZeroDivisionError and nothing else changes
HaltsDivisionByZero ==
    /\ err' = "ZeroDivisionError"
    /\ UNCHANGED <<Env, output, kont>>

\* C4 as claimed: every Divide whose operand resolves to 0 halts the run with
\* a division-by-zero error and leaves the target as it was; once the run has
\* halted nothing runs and nothing changes.
C4_DivideByZeroHalts ==
    [][ /\ DivideByZero => HaltsDivisionByZero
        /\ err # "" => UNCHANGED vars
      ]_vars

\* C4 amended: a Divide whose target holds a number and whose operand
\* resolves to 0 halts the run with a division-by-zero error, the target
\* keeping its value; once the run has halted no statement runs, nothing is
\* written and the Environment does not change.
C4_DivideByZeroHalts_Amended ==
    [][ /\ (DivideByZero /\ IsNum(get_var(Cur.name))) => HaltsDivisionByZero
        /\ err # "" => UNCHANGED vars
      ]_vars

\* C4 witness: x = 6 was divided by 0 while more statements could follow.
C4_Witness_HaltedWithTargetKept ==
    /\ err = "ZeroDivisionError"
    /\ "x" \in DOMAIN variables /\ variables["x"] = IntV(6)
    /\ fed < MaxTop /\ kont # <<>> /\ Cur.kind = "DivideNode"

\* the step starts the body of the conditional about to be visited
BodyEntered ==
    /\ Len(kont') = Len(kont) + 1
    /\ Last(kont').body = Cur.body /\ Last(kont').i = 1
    /\ Pop(kont') = kont
\* the step passes over the conditional about to be visited
BodySkipped == kont' = Finish(kont, Null)

\* C5: conditionals are never chained.  Each If and each OrIf runs its body
\* if and only if its own condition is truthy, each Otherwise always, whatever
\* ran before it.
C5_ConditionalsIndependent ==
    [][ /\ (At("IfNode") \/ At("OrIfNode")) =>
              IF evaluate_condition(Cur.value) THEN BodyEntered ELSE BodySkipped
        /\ At("OtherwiseNode") => BodyEntered
      ]_vars

\* C5 witness: the body of `OrIf true` runs right after the body of the
\* `If true` before it has printed a.
C5_Witness_BothBodiesRun ==
    /\ kont # <<>> /\ Top.k = "block" /\ Top.node = OrIfNode(StrV("true"), ShowB)
    /\ fed = 2 /\ output = << <<StrV("a")>> >>

\* false by the claim: zero, the empty string, null
ClaimedFalse(v) == (IsNum(v) /\ v.n = 0) \/ v = StrV("") \/ v = Null

\* false by the amended claim: also a list or a mapping with nothing in it
AmendedFalse(v) == ClaimedFalse(v) \/ (v.t \in {"list", "dict"} /\ Len(heap[v.n].items) = 0)

\* C6 as claimed: the condition of an If, OrIf or Do-until counts as false
\* exactly when it resolves to zero, the empty string or null.
C6_FalseIsZeroEmptyNull ==
    [][ /\ (At("IfNode") \/ At("OrIfNode")) =>
              IF ClaimedFalse(resolve_value(Cur.value)) THEN BodySkipped ELSE BodyEntered
        /\ At("DoUntilNode") =>
              IF ClaimedFalse(resolve_value(Cur.value)) THEN BodyEntered ELSE BodySkipped
        /\ AtEnd("until") =>
              IF ClaimedFalse(resolve_value(Top.node.value))
              THEN kont' = [kont EXCEPT ![Len(kont)].i = 1]
              ELSE kont' = Finish(Pop(kont), Null)
      ]_vars

\* C6 amended: the condition of an If, OrIf or Do-until counts as false
\* exactly when it resolves to zero, the empty string, null, or a list or
\* mapping without elements; every other value counts as true.
C6_FalseIsZeroEmptyNull_Amended ==
    [][ /\ (At("IfNode") \/ At("OrIfNode")) =>
              IF AmendedFalse(resolve_value(Cur.value)) THEN BodySkipped ELSE BodyEntered
        /\ At("DoUntilNode") =>
              IF AmendedFalse(resolve_value(Cur.value)) THEN BodyEntered ELSE BodySkipped
        /\ AtEnd("until") =>
              IF AmendedFalse(resolve_value(Top.node.value))
              THEN kont' = [kont EXCEPT ![Len(kont)].i = 1]
              ELSE kont' = Finish(Pop(kont), Null)
      ]_vars

\* C6 witness: a Do-until on the mapping d, empty at entry, ends after the
\* body put an element into d.
C6_Witness_MappingCondition ==
    /\ kont # <<>> /\ Top.k = "top" /\ Top.i = 2
    /\ Top.body[1].kind = "DoUntilNode" /\ Top.body[1].value = StrV("d")
    /\ "d" \in DOMAIN dicts /\ heap[dicts["d"].n].keys = <<"d">>
    /\ Len(heap) >= 2 /\ heap[Len(heap) - 1].kind = "dict" /\ heap[Len(heap) - 1].items = <<>>

\* the value a string resolves to by the claim
ClaimedResolve(v) ==
    IF v.t # "str" THEN v
    ELSE IF v.s \in DOMAIN lists THEN lists[v.s]
    ELSE IF v.s \in DOMAIN dicts THEN dicts[v.s]
    ELSE IF v.s \in DOMAIN variables THEN variables[v.s]
    ELSE v

\* C7: a string resolves through the list, then the dict, then the scalar
\* namespace, the first that has the name winning, and to itself when none
\* has; numbers and null resolve to themselves.  Display prints and Assign
\* stores exactly that value.
C7_ResolveOrder ==
    [][ /\ (At("DisplayNode") /\ ~Cur.call) => output' = Append(output, <<ClaimedResolve(Cur.value)>>)
        /\ At("AssignNode") => variables'[Cur.name] = ClaimedResolve(Cur.value)
      ]_vars

\* C7 witness: Display L has just printed the list although L is a scalar too.
C7_Witness_ListBeforeScalar ==
    /\ kont # <<>> /\ Top.k = "top" /\ Top.i = 2
    /\ Top.body[1] = DisplayNode(StrV("L"))
    /\ "L" \in DOMAIN lists /\ "L" \in DOMAIN variables
    /\ output # <<>> /\ Last(output) = <<lists["L"]>>

\* C2: run through lexer, parser and evaluator, the source that defines add
\* over (a, b) with the one body line `return a + b` and displays its call
\* with (5, 7) prints 12, and the caller's scalars are as they were: none in
\* ScenarioD, b = 3 in ScenarioD2.
C2_AddReturnsTwelve ==
    /\ (Done /\ raw = Program(ScenarioD)) =>
          (output = << <<IntV(12)>> >> /\ variables = EmptyMap)
    /\ (Done /\ raw = Program(ScenarioD2)) =>
          (output = << <<IntV(12)>>, <<IntV(3)>> >> /\ variables = Put(EmptyMap, "b", IntV(3)))

\* the first line of the source reads `Create list <name> containing contents ...`
CreatesListFirst ==
    /\ token_lines # <<>> /\ Len(token_lines[1].tokens) >= 3
    /\ token_lines[1].tokens[1].type = "CREATE_LIST"
    /\ token_lines[1].tokens[2].type = "IDENTIFIER"
    /\ token_lines[1].tokens[3].type = "CONTENTS"
\* the elements e1..en written after `containing contents` on that line
Written == ValuesOf(token_lines[1].tokens, 4, Len(token_lines[1].tokens), ElementTypes)
\* the first statement of the source has been executed and no other
FirstStatementRun == pc = "interpreter" /\ err = "" /\ kont # <<>> /\ kont[1].i = 2 /\ Len(kont) = 1

\* C3: `Create list L containing contents e1, ..., en` stores under L exactly
\* e1..en in order, and the ForEach of ScenarioB over 1, 2, 3 with the body
\* `Display item` prints the three lines 1, 2, 3.
C3_ListHoldsWrittenElements ==
    /\ (CreatesListFirst /\ FirstStatementRun) =>
          LET L == token_lines[1].tokens[2].value.s
          IN L \in DOMAIN lists /\ heap[lists[L].n].items = Written
    /\ (Done /\ raw = Program(ScenarioB)) =>
          output = << <<IntV(1)>>, <<IntV(2)>>, <<IntV(3)>> >>

\* the repeat count max(0, floor(N)) of a number N
MaxZeroFloor(v) == IF v.n \div v.d > 0 THEN v.n \div v.d ELSE 0

\* the step leaves every repeat frame below the running statement as it is
RepeatFramesKept ==
    \A j \in 1..Len(kont) :
        (kont[j].k = "repeat" /\ j <= Len(kont') /\ ~(j = Len(kont) /\ AtEnd("repeat")))
            => (kont'[j].k = "repeat" /\ kont'[j].n = kont[j].n /\ kont'[j].node = kont[j].node)

\* C11: Repeat resolves N once, on entry, and runs its body exactly
\* max(0, floor(N)) times with no early exit.  On entry with a number N the
\* body is skipped when that count is 0 and else starts with count - 1 runs
\* still to come; each end of the body starts the next run and takes one from
\* the runs to come, the loop ending when none is left; no other step, of the
\* body or of anything else, touches the runs to come.
C11_RepeatCountFixedAtEntry ==
    [][ /\ (At("RepeatNode") /\ IsNum(resolve_value(Cur.value))) =>
              LET M == MaxZeroFloor(resolve_value(Cur.value))
              IN IF M = 0 THEN BodySkipped
                 ELSE BodyEntered /\ Last(kont').k = "repeat" /\ Last(kont').n = M - 1
        /\ AtEnd("repeat") =>
              IF Top.n > 0
              THEN kont' = [kont EXCEPT ![Len(kont)] = [Top EXCEPT !.n = Top.n - 1, !.i = 1]]
              ELSE kont' = Finish(Pop(kont), Null)
        /\ err = "" => RepeatFramesKept
      ]_vars

\* C11 witness: `Repeat n times` with n = 2 on entry has ended after exactly
\* two runs of a body that raised n to 3 and then to 4 and printed it.
C11_Witness_BodyChangesCount ==
    /\ kont # <<>> /\ Top.k = "top" /\ Top.i = 2
    /\ Top.body[1].kind = "RepeatNode" /\ Top.body[1].value = StrV("n")
    /\ fed = 2 /\ output = << <<IntV(3)>>, <<IntV(4)>> >>
    /\ variables["n"] = IntV(4)

\* C12: Do-until is a pre-test loop.  On entry the body is skipped when the
\* condition is true and entered otherwise; after every run of the body the
\* condition is resolved again in the Environment as it is then, a true
\* condition ending the loop for good and a false one starting the body
\* again; testing changes nothing.
C12_DoUntilPreTest ==
    [][ /\ At("DoUntilNode") =>
              /\ IF Truthy(resolve_value(Cur.value)) THEN BodySkipped ELSE BodyEntered
              /\ UNCHANGED <<Env, output, err>>
        /\ AtEnd("until") =>
              /\ IF Truthy(resolve_value(Top.node.value))
                 THEN kont' = Finish(Pop(kont), Null)
                 ELSE kont' = [kont EXCEPT ![Len(kont)].i = 1]
              /\ UNCHANGED <<Env, output, err>>
      ]_vars

\* C12 witness: `Do this until c` entered with c = 0 and n = 0 has ended after
\* two runs of the body (c takes the value of n, then n grows by 1): the first
\* left c = 0, the second c = 1.
C12_Witness_EndsWhenTrue ==
    /\ kont # <<>> /\ Top.k = "top" /\ Top.i = 2
    /\ Top.body[1].kind = "DoUntilNode" /\ Top.body[1].value = StrV("c")
    /\ "c" \in DOMAIN variables /\ variables["c"] = IntV(1)
    /\ "n" \in DOMAIN variables /\ variables["n"] = IntV(2)

\* C13: a ForEach whose iterable name resolves to anything but a list fails
\* with a type error, having run its body zero times and bound nothing.
C13_ForEachNonListFails ==
    [][ (At("ForEachNode") /\ resolve_value(StrV(Cur.name2)).t # "list") =>
            /\ err' = "TypeError"
            /\ UNCHANGED <<Env, output, kont>>
      ]_vars

\* C14: an arithmetic update whose target holds no number (a string, or
\* nothing at all) halts the run with a type error and changes no namespace;
\* once halted, nothing runs.
C14_ArithOnNonNumberHalts ==
    [][ /\ (AtStmt /\ Cur.kind \in ArithKinds /\ ~IsNum(get_var(Cur.name))) =>
              /\ err' = "TypeError"
              /\ UNCHANGED <<Env, output, kont>>
        /\ err # "" => UNCHANGED vars
      ]_vars

\* C14 witness: `Exponentiate s by 2` with s = "hi" has halted the run, s as
\* it was, while more statements could follow.
C14_Witness_StringTargetHalted ==
    /\ err = "TypeError" /\ kont # <<>> /\ Cur.kind = "ExponentiateNode"
    /\ "s" \in DOMAIN variables /\ variables["s"] = StrV("hi")
    /\ fed < MaxTop

\* C15: constructing the lexer and tokenizing never raises, whatever the
\* text: no run stops in the lexer.
C15_TokenizeTotal == pc \in {"lexer", "tokenize"} => err = ""

\* C16: parse consumes the line stream with a forward-only cursor.  Every turn
\* of its loop moves the cursor forward, never past the last line, and the
\* lines handed to statement parsing in that turn, at top level or inside its
\* blocks, are exactly the lines the cursor passed, each once and in order;
\* parse returns only with the cursor at the number of lines; while it has not
\* returned it can take its next turn or return, so the growing cursor, bounded
\* by the number of lines, makes it return.
C16_CursorForwardOnly ==
    /\ [][ /\ (pc = "parser" /\ pos < Len(token_lines)) =>
                 /\ pos' > pos /\ pos' <= Len(token_lines)
                 /\ handed_statement(token_lines, pos) = [j \in 1..(pos' - pos) |-> pos + j]
           /\ (pc = "parser" /\ pc' # "parser") => pos = Len(token_lines)
         ]_vars
    /\ [](pc = "parser" => ENABLED (Parser_parse \/ Interpreter_execute))

\* C16 witness: parse has returned for the five lines of NestedA, a block
\* inside a block and a line after them, with two top-level nodes.
C16_Witness_NestedBlocksParsed ==
    /\ pc = "interpreter" /\ raw = Program(NestedA)
    /\ Len(token_lines) = 5 /\ pos = 5
    /\ Len(ast) = 2 /\ Len(ast[1].body) = 2 /\ Len(ast[1].body[1].body) = 1

\* the non-blank lines of the text, stripped: one per entry of token_lines
NonBlank == SelectSeq([j \in 1..Len(lines) |-> Strip(lines[j])], LAMBDA l : l # "")

IsWord(w) ==
    \/ \A i \in 1..Len(w) : Ch(w, i) \in Letters \cup DOMAIN UpperToLower
    \/ \A i \in 1..Len(w) : Ch(w, i) \in Digits

\* the line holds nothing but words of letters and numerals, apart by blanks
WordsOnly(line) ==
    /\ \A i \in 1..Len(line) : Ch(line, i) \in Letters \cup DOMAIN UpperToLower \cup Digits \cup {" "}
    /\ \A j \in 1..Len(Split(line)) : IsWord(Split(line)[j])

\* the phrase of p words that starts at word k
PhraseAt(words, k, p) == Lower(Join(SubSeq(words, k, k + p - 1), p, " "))

\* the number of words of the longest keyword phrase that starts at word k,
\* 0 when none does
LongestAt(words, k) ==
    LET ps == {p \in 1..4 : k + p - 1 <= Len(words) /\ PhraseAt(words, k, p) \in DOMAIN keywords}
    IN IF ps = {} THEN 0 ELSE Greatest(ps)

\* the tokens of the words from word k on when, at each word position, the
\* longest keyword phrase is emitted and exactly its words are consumed
RECURSIVE ExpectedTokens(_, _)
ExpectedTokens(words, k) ==
    IF k > Len(words) THEN <<>>
    ELSE LET p == LongestAt(words, k)
             w == words[k]
         IN IF Ch(w, 1) \in Digits
            THEN <<Token("INTEGER", IntV(ParseInt(w)))>> \o ExpectedTokens(words, k + 1)
            ELSE IF p > 0
            THEN <<Token(keywords[PhraseAt(words, k, p)], StrV(PhraseAt(words, k, p)))>>
                     \o ExpectedTokens(words, k + p)
            ELSE <<IF Lower(w) \in filler_words THEN Token("IGNORED", StrV(Lower(w)))
                   ELSE Token("IDENTIFIER", StrV(w))>> \o ExpectedTokens(words, k + 1)

\* C17: at each word position the lexer emits the longest phrase of the
\* keyword table that matches there and consumes exactly the words of that
\* phrase, the next token starting at the word after it: every line of words
\* tokenizes to the tokens of that rule.
C17_LongestPhraseConsumed ==
    pc \in {"parser", "interpreter"} =>
        \A k \in 1..Len(NonBlank) :
            WordsOnly(NonBlank[k]) =>
                token_lines[k].tokens = ExpectedTokens(Split(NonBlank[k]), 1)

\* C18: `Assign v to x` followed by `Increase x by n` leaves x bound to
\* v + n, and the `Display x` after them prints exactly that value on one
\* line: the run of Scenario A does not fail and ends with that binding and
\* that line, for 5 and 10 (the line 15) and for the other literals of SumCases.
C18_AssignIncreaseDisplay ==
    \A c \in SumCases :
        raw = Program(ScenarioA(c.v, c.n)) =>
            /\ err = ""
            /\ Done => (output = << <<c.sum>> >> /\ variables = Put(EmptyMap, "x", c.sum))

\* d divides x
Divides(d, x) == \E k \in -Abs(x)..Abs(x) : d * k = x

\* the greatest common divisor: the greatest number dividing both, 0 of 0 and 0
GcdMath(a, b) ==
    IF a = 0 /\ b = 0 THEN 0
    ELSE Greatest({d \in 1..(Abs(a) + Abs(b)) : Divides(d, a) /\ Divides(d, b)})

\* the least common multiple: the least positive number both divide, 0 when
\* one of them is 0
LcmMath(a, b) ==
    IF a = 0 \/ b = 0 THEN 0
    ELSE Least({m \in 1..Abs(a * b) : Divides(a, m) /\ Divides(b, m)})

\* C19: on two numbers the gcd and lcm primitives never fail and return the
\* greatest common divisor and the least common multiple of the arguments
\* truncated to integers, and square returns n * n: whenever the interpreter
\* is at such a statement, the step raises nothing and the value returned is
\* the mathematical one (gcd(12,18) = 6, lcm(4,6) = 12, square(7) = 49).
C19_MathPrimitives ==
    [][ (At("MathFuncNode") /\ Len(MathArgs) >= 1 /\ \A i \in DOMAIN MathArgs : IsNum(MathArgs[i])) =>
            LET a == IntValue(MathArgs[1])
                b == IntValue(MathArgs[Len(MathArgs)])
                n == MathArgs[1]
            IN /\ (Cur.name = "GCD" /\ Len(MathArgs) = 2) =>
                     /\ err' = ""
                     /\ MathFuncValues("GCD", MathArgs) = {IntV(GcdMath(a, b))}
               /\ (Cur.name = "LCM" /\ Len(MathArgs) = 2) =>
                     /\ err' = ""
                     /\ MathFuncValues("LCM", MathArgs) = {IntV(LcmMath(a, b))}
               /\ Cur.name = "SQUARE" =>
                     /\ err' = ""
                     /\ MathFuncValues("SQUARE", MathArgs) =
                            {Num(n.n * n.n, n.d * n.d, n.t # "float")}
      ]_vars

\* no token of the program is a random-int or an Interact keyword
NoRandomNoInteract ==
    \A i \in DOMAIN token_lines : \A j \in DOMAIN token_lines[i].tokens :
        token_lines[i].tokens[j].type \notin {"RANDOM_INT", "INTERACT"}

\* C20: a program with no random-int and no Interact statement runs the same
\* way every time: from a state of the interpreter's execution of its syntax
\* tree there is one step the execution can take, so two executions of the
\* program from the empty Environment pass through the same states, print
\* the same lines and end with the same Environment.
C20_Deterministic ==
    [][ (NoRandomNoInteract /\ pc = "interpreter") =>
            \A X \in {vars'} : ~ENABLED (NextFile /\ vars' # X) ]_vars

\* line q of TL is a block-header line: its handler collects a block
IsHeader(TL, q) ==
    LET tokens == filtered_tokens(TL[q].tokens)
    IN tokens # <<>> /\ Dispatch(tokens) \in BlockHandlers

\* The last line of the body of the header at line q, q itself for an empty
\* body: the body is empty unless the next line is indented more than the
\* header; otherwise it runs from the next line, whose indentation is the
\* baseline, to the line before the first line indented less than that.
BodyLast(TL, q) ==
    IF q = Len(TL) \/ TL[q + 1].indent <= TL[q].indent THEN q
    ELSE LET shallower == {j \in (q + 1)..Len(TL) : TL[j].indent < TL[q + 1].indent}
         IN IF shallower = {} THEN Len(TL) ELSE Least(shallower) - 1

\* The nodes of the lines lo..hi read as statements of one level: a header
\* takes the lines of its body as its children, any other line is one node
\* or none.
RECURSIVE NodesOfLines(_, _, _)
NodesOfLines(TL, lo, hi) ==
    IF lo > hi THEN <<>>
    ELSE LET tokens == filtered_tokens(TL[lo].tokens)
             node == Handle(IF tokens = <<>> THEN "" ELSE Dispatch(tokens), tokens)
             last == IF IsHeader(TL, lo) THEN BodyLast(TL, lo) ELSE lo
             here == IF IsHeader(TL, lo)
                     THEN <<[node EXCEPT !.body = NodesOfLines(TL, lo + 1, last)]>>
                     ELSE IF node.kind = "None" THEN <<>> ELSE <<node>>
         IN here \o NodesOfLines(TL, last + 1, hi)

\* C21: the body of a block header at indentation h is empty when the next
\* line is not indented more than h; otherwise the next line's indentation b
\* is the baseline and the body is the following lines up to, not including,
\* the first line indented less than b, which stays for the enclosing level;
\* deeper lines after a nested header are that header's body.  Every turn of
\* the parse loop leaves the cursor after exactly those lines and appends the
\* nodes they give by this rule.
C21_BlockBody ==
    [][ (pc = "parser" /\ pos < Len(token_lines)) =>
            /\ pos' = (IF IsHeader(token_lines, pos + 1)
                       THEN BodyLast(token_lines, pos + 1) ELSE pos + 1)
            /\ ast' = ast \o NodesOfLines(token_lines, pos + 1, pos')
      ]_vars

\* C21 witness: NestedB is parsed: the function's body is the If at the
\* baseline 8 with its own body, the line at 4 ended it and became a
\* top-level statement, and the body of Otherwise holds the one node of its
\* two lines.
C21_Witness_BaselineEndsBody ==
    /\ pc = "interpreter" /\ raw = Program(NestedB) /\ Len(token_lines) = 7
    /\ Len(ast) = 3
    /\ ast[1].kind = "FunctionDefNode" /\ Len(ast[1].body) = 1
    /\ ast[1].body[1].kind = "IfNode" /\ Len(ast[1].body[1].body) = 1
    /\ ast[2].kind = "DisplayNode"
    /\ ast[3].kind = "OtherwiseNode" /\ Len(ast[3].body) = 1

\* The statement predicates in their order, each with the node kinds its
\* statements have.
StatementKinds == <<
    {"DisplayNode"}, {"InteractNode"}, {"ObjectNode"}, {"ButtonNode"}, {"ListNode"},
    {"ListAddNode"},
    {"AssignNode", "SetNode", "ChangeNode", "IncreaseNode", "DecreaseNode", "MultiplyNode",
     "DivideNode", "ExponentiateNode", "BlockVarNode"},
    {"FunctionDefNode"}, {"FunctionCallNode"}, {"FunctionAbbrevNode"},
    {"IfNode"}, {"OrIfNode"}, {"OtherwiseNode"}, {"RepeatNode"}, {"DoUntilNode"},
    {"ForEachNode"}, {"MathFuncNode"}, {"FileNode"},
    {"GetLengthNode", "GetCaseNode", "GetTypeNode"},
    {"ImportNode"}, {"ExportNode"}, {"DictionaryNode"} >>

\* the k-th statement predicate holds for the tokens of a line
PredicateHolds(k, tokens) ==
    LET has(S) == \E i \in DOMAIN tokens : tokens[i].type \in S
    IN IF k = 1 THEN has({"DISPLAY"})
       ELSE IF k = 2 THEN has({"INTERACT"})
       ELSE IF k = 3 THEN has({"CREATE_WINDOW", "WINDOW"})
       ELSE IF k = 4 THEN has({"CREATE_BUTTON", "BUTTON"})
       ELSE IF k = 5 THEN has({"CREATE_LIST"})
       ELSE IF k = 6 THEN has({"ADD"}) /\ \E i \in DOMAIN tokens :
                              tokens[i].type = "IDENTIFIER" /\ Lower(tokens[i].value.s) = "list"
       ELSE IF k = 7 THEN has({"ASSIGN", "SET", "CHANGE", "INCREASE", "DECREASE", "MULTIPLY",
                               "DIVIDE", "EXPONENTIATE", "BLOCK"})
       ELSE IF k = 8 THEN has({"DEFINE_FUNCTION"})
       ELSE IF k = 9 THEN \/ has({"CALL_FUNCTION"})
                          \/ /\ tokens[1].type = "IDENTIFIER"
                             /\ \E i \in 2..Len(tokens) :
                                    tokens[i].type \in {"INTEGER", "FLOAT", "STRING", "BOOLEAN"}
       ELSE IF k = 10 THEN has({"ABBREV_FUNCTION"})
       ELSE IF k = 11 THEN has({"IF"})
       ELSE IF k = 12 THEN has({"ORIF"})
       ELSE IF k = 13 THEN has({"OTHERWISE"})
       ELSE IF k = 14 THEN has({"REPEAT"})
       ELSE IF k = 15 THEN has({"DOUNTIL"})
       ELSE IF k = 16 THEN has({"FOREACH"})
       ELSE IF k = 17 THEN has({"SQUARE", "SQUAREROOT", "GCD", "LCM", "RANDOM_INT"})
       ELSE IF k = 18 THEN has({"FILE_CREATE", "FILE_DELETE", "FILE_WRITE", "FILE_FIND",
                                "FILE_REPLACE", "FILE_RENAME", "FILE_ACCESS"})
       ELSE IF k = 19 THEN has({"GET_LENGTH", "GET_CASE", "GET_TYPE"})
       ELSE IF k = 20 THEN has({"IMPORT"})
       ELSE IF k = 21 THEN has({"EXPORTS"})
       ELSE has({"CREATE_DICT", "CONTAINING"})

\* the first predicate that holds for line q of TL, 0 when none holds
FirstHolding(TL, q) ==
    LET tokens == filtered_tokens(TL[q].tokens)
        holding == {k \in DOMAIN StatementKinds : PredicateHolds(k, tokens)}
    IN IF tokens = <<>> \/ holding = {} THEN 0 ELSE Least(holding)

\* C22, the caml-code copy: parse_statement tests the statement predicates in the fixed order
\* display, interact, window, button, list creation, list add, arithmetic or
\* assignment, function definition, function call, function abbreviation,
\* if, or-if, otherwise, repeat, do-until, for-each, math call, file
\* operation, getter, import, export, dictionary, and the first that holds
\* for the line decides the kind of its node.  A line for which none holds,
\* such as a line of filler words and punctuation only, gives no node, raises
\* no error and moves the cursor by one.  This holds of the line each turn of
\* the parse loop takes and of every line parsed inside a block.
C22_FirstPredicateWins ==
    [][ (pc = "parser" /\ pos < Len(token_lines)) =>
            /\ err' = ""
            /\ LET k == FirstHolding(token_lines, pos + 1)
               IN IF k = 0 THEN ast' = ast /\ pos' = pos + 1
                  ELSE /\ Len(ast') <= Len(ast) + 1
                       /\ SubSeq(ast', 1, Len(ast)) = ast
                       /\ \A i \in (Len(ast) + 1)..Len(ast') : ast'[i].kind \in StatementKinds[k]
            /\ \A q \in 1..Len(token_lines) :
                   LET r == parse_statement(token_lines, q - 1)
                       k == FirstHolding(token_lines, q)
                   IN IF k = 0 THEN r.nodes = <<>> /\ r.pos = q
                      ELSE \A i \in DOMAIN r.nodes : r.nodes[i].kind \in StatementKinds[k]
      ]_vars

\* C22 witness: OrderA is parsed: each of its first seven lines holds the
\* keywords of two kinds and became a node of the kind tested first, and its
\* last line, for which no predicate holds, left no node.
C22_Witness_EarlierKindChosen ==
    /\ pc = "interpreter" /\ raw = Program(OrderA) /\ Len(token_lines) = 8 /\ pos = 8
    /\ [i \in 1..Len(ast) |-> ast[i].kind] =
           <<"DisplayNode", "InteractNode", "ObjectNode", "ButtonNode", "ListNode",
             "ListAddNode", "AssignNode">>
    /\ FirstHolding(token_lines, 8) = 0

\* the handlers of the statement predicates, in the order of StatementKinds
StatementHandlers == <<
    "parse_display", "parse_interact", "parse_window", "parse_button", "parse_list",
    "parse_list_add", "parse_variable_statement", "parse_function_def",
    "parse_function_call", "parse_function_abbrev", "parse_if", "parse_or_if",
    "parse_otherwise", "parse_repeat", "parse_do_until", "parse_for_each",
    "parse_math_func", "parse_file", "parse_getter", "parse_import", "parse_export",
    "parse_dictionary" >>

\* C22: both copies of parse_statement, caml-code and python_code, test the
\* statement predicates in the one fixed order (display first, for-each
\* after do-until, dictionary last) and give the line to the statement of
\* the first predicate that holds; a line for which none holds gives no node,
\* raises no error and moves the cursor by one.  The python_code copy is
\* compared on the lines its lexer can give it (no window or button keyword)
\* that do not start with a name, where its function-call test is the same.
C22_SameOrderInBothCopies ==
    /\ C22_FirstPredicateWins
    /\ [](pc \in {"parser", "interpreter"} =>
            \A q \in 1..Len(token_lines) :
                LET tokens == filtered_tokens(token_lines[q].tokens)
                    k == FirstHolding(token_lines, q)
                IN (/\ tokens # <<>>
                    /\ Types(tokens) \cap {"CREATE_WINDOW", "WINDOW", "CREATE_BUTTON", "BUTTON"} = {}
                    /\ tokens[1].type # "IDENTIFIER") =>
                       py_Dispatch(tokens) = (IF k = 0 THEN "" ELSE StatementHandlers[k]))

\* the lines of the source text
RawLines == SplitOn(Replace(Replace(raw, CRLF, NL), CR, NL), NL)

\* The index of the first `$` of line l at or after i that is outside the
\* string literals of the line, 0 when there is none: a literal runs from a
\* double quote to the next double quote that no backslash escapes.
RECURSIVE CommentAt(_, _)
CommentAt(l, i) ==
    LET k == SkipTo(l, i, {Quote, "$"})
        close == StringClose(l, k + 1)
    IN IF k > Len(l) THEN 0
       ELSE IF Ch(l, k) = "$" THEN k
       ELSE IF close = 0 THEN CommentAt(l, k + 1)
       ELSE CommentAt(l, close + 1)

\* line l without its comment
WithoutComment(l) ==
    IF CommentAt(l, 1) = 0 THEN l ELSE SubSeq(l, 1, CommentAt(l, 1) - 1)

\* C23: comment stripping removes exactly the text from a `$` outside every
\* string literal to the end of that same line.  For a text with no block
\* comment marker and no placeholder spelling, the lines the lexer keeps are
\* the lines of the text, each cut at its first `$` outside a string:
\* nothing inside a string is removed and no other line changes, whatever the
\* comment holds.
C23_CommentStrippedOnItsLine ==
    (/\ pc = "tokenize"
     /\ FindFrom(raw, 1, "$$$") = 0
     /\ FindFrom(raw, 1, "__STR_") = 0) =>
        lines = [i \in 1..Len(RawLines) |-> WithoutComment(RawLines[i])]

\* The lines kept of lns by the two-state toggle, inside telling whether a
\* block comment is open: a line beginning with $$$ flips the state and is
\* dropped, a line inside is dropped, a line outside is kept.
RECURSIVE KeptLines(_, _)
KeptLines(lns, inside) ==
    IF lns = <<>> THEN <<>>
    ELSE LET s == Strip(Head(lns))
         IN IF Len(s) >= 3 /\ SubSeq(s, 1, 3) = "$$$" THEN KeptLines(Tail(lns), ~inside)
            ELSE IF inside THEN KeptLines(Tail(lns), inside)
            ELSE <<WithoutComment(Head(lns))>> \o KeptLines(Tail(lns), inside)

\* C24: block comments are a two-state toggle over the lines of the text: a
\* line beginning with `$$$` flips the state and is discarded, a line seen
\* inside is discarded, a line seen outside is kept.  For a text with a
\* `$$$` in it, the Line entries the lexer hands to the parser are those of
\* the lines the toggle keeps: the lines from an opening marker through the
\* next marker give none, the others are unaffected.
C24_BlockCommentToggle ==
    (/\ pc = "parser"
     /\ FindFrom(raw, 1, "$$$") > 0
     /\ FindFrom(raw, 1, "__STR_") = 0) =>
        token_lines = tokenize(KeptLines(RawLines, FALSE))

\* C25: a numeral written with a leading minus is one INTEGER or FLOAT token
\* carrying the negative value, and a numeral is FLOAT exactly when it has a
\* decimal point: in `Assign <numeral> to x` the sign and the digits are that
\* one token, and the run leaves x bound to the number written and displays it.
C25_SignedNumeralOneToken ==
    \A c \in NumeralCases :
        raw = Program(AssignNumeral(c.text)) =>
            /\ pc \in {"parser", "interpreter"} =>
                   SelectSeq(token_lines[1].tokens,
                             LAMBDA t : t.type \in {"INTEGER", "FLOAT", "-", "DOT"}) =
                       <<Token(IF Find(c.text, ".") > 0 THEN "FLOAT" ELSE "INTEGER", c.value)>>
            /\ Done => (variables = Put(EmptyMap, "x", c.value) /\ output = << <<c.value>> >>)

\* C26: the keywords true, false and null reach the evaluator as boolean and
\* null literals, not as strings open to lookup, so an If or Or-if whose
\* condition is written false or null never runs its body: in the program
\* GuardedBy(w) both conditions in the syntax tree are a boolean or the null
\* value, neither body prints, and the run ends having printed only `end`.
C26_FalseLiteralSkipsBody ==
    \A w \in FalseWords :
        raw = Program(GuardedBy(w)) =>
            /\ \A i \in DOMAIN ast :
                   ast[i].kind \in {"IfNode", "OrIfNode"} => ast[i].value.t \in {"bool", "null"}
            /\ \A i \in DOMAIN output : output[i] = << StrV("end") >>
            /\ Done => output = << <<StrV("end")>> >>

\* C27: a ForEach over a list runs its body exactly as many times as the
\* list had elements when the loop started, whatever the body does, additions
\* to the iterated list included.  In the programs of PoolEach a loop over L
\* starts with the elements of EachList and a loop over M with the elements M
\* has all through the loop, so no loop is ever at an element past those.
C27_ForEachRunsStartLength ==
    \A i \in DOMAIN kont :
        kont[i].k = "foreach" =>
            kont[i].n <= (IF kont[i].node.name2 = "L" THEN Len(EachList)
                          ELSE Len(heap[kont[i].obj].items))

\* C28: when a user-function call returns, the scalars are again the ones the
\* caller had when it called, and the lists, the dictionaries, the objects
\* they name and the function definitions are the ones the body left: what
\* the body created, added, defined or abbreviated stays.
C28_ReturnRestoresOnlyScalars ==
    [][ AtEnd("call") =>
            /\ variables' = Top.old_vars
            /\ lists' = lists
            /\ dicts' = dicts
            /\ heap' = heap
            /\ functions' = functions
      ]_vars

\* f has returned to the top level: the list B, the dictionary e, the function
\* h and the abbreviation k it made are there, the element it added to A is
\* there, and the scalar z it bound is gone.
C28_Witness_BodyEffectsRemain ==
    /\ call_stack = <<>> /\ err = ""
    /\ "z" \notin DOMAIN variables
    /\ {"A", "B"} \subseteq DOMAIN lists
    /\ Len(heap[lists["A"].n].items) = 2
    /\ "e" \in DOMAIN dicts
    /\ {"h", "k"} \subseteq DOMAIN functions

\* The frames of user-function bodies among the first n frames
CallFramesBelow(n) == {i \in 1..n : kont[i].k = "call"}

\* C29: the depth of the call stack is always the number of user-function
\* invocations that are executing; a call that returns leaves the depth it
\* found when it was made; the stack is empty when a top-level statement
\* starts and when execute has finished without error.
C29_CallStackBalanced ==
    /\ [](Len(call_stack) = Cardinality(CallFramesBelow(Len(kont))))
    /\ [][ AtEnd("call") =>
               Len(call_stack') = Cardinality(CallFramesBelow(Len(kont) - 1)) ]_vars
    /\ []((err = "" /\ (kont = <<>> \/ (Len(kont) = 1 /\ Top.i = 1))) => call_stack = <<>>)
    /\ [][ (AtEnd("top") /\ kont' = <<>>) => call_stack' = <<>> ]_vars

\* A call made inside the body of another user function has returned: the
\* caller's body goes on at depth one.
C29_Witness_NestedCallReturned ==
    /\ err = "" /\ Len(call_stack) = 1
    /\ kont # <<>> /\ Top.k = "call" /\ Top.i = 2
    /\ Top.body[1].kind = "FunctionCallNode"
    /\ Top.body[1].name \in DOMAIN functions
    /\ Len(Top.results) = 1

\* The token lines as the python_code parser is handed them: its lexer makes
\* no token of a filler word or a dot
WithoutIgnored(TL) == [q \in 1..Len(TL) |-> [TL[q] EXCEPT !.tokens = filtered_tokens(@)]]

\* The handlers of the block headers the two copies share
SharedHeaders == {"parse_if", "parse_or_if", "parse_otherwise", "parse_repeat",
                  "parse_do_until", "parse_for_each", "parse_function_def"}

\* C30: for every line both parser copies take for a header of the same kind
\* (If, Or if, Otherwise, Repeat, Do-until, For each, Define function), both
\* give the header the same following lines as its body.
C30_CopiesAgreeOnBodies ==
    pc \in {"parser", "interpreter"} =>
        \A q \in 1..Len(token_lines) :
            LET tokens == filtered_tokens(token_lines[q].tokens)
            IN (/\ tokens # <<>>
                /\ Dispatch(tokens) \in SharedHeaders
                /\ py_Dispatch(tokens) = Dispatch(tokens)) =>
                   Tail(py_handed_statement(WithoutIgnored(token_lines), q - 1))
                       = Tail(handed_statement(token_lines, q - 1))

\* C30 for the headers other than Define function
C30_OtherHeadersAgree ==
    pc \in {"parser", "interpreter"} =>
        \A q \in 1..Len(token_lines) :
            LET tokens == filtered_tokens(token_lines[q].tokens)
            IN (/\ tokens # <<>>
                /\ Dispatch(tokens) \in SharedHeaders \ {"parse_function_def"}
                /\ py_Dispatch(tokens) = Dispatch(tokens)) =>
                   Tail(py_handed_statement(WithoutIgnored(token_lines), q - 1))
                       = Tail(handed_statement(token_lines, q - 1))

====
